---- MODULE Spec2Model ----
(***************************************************************************)
(* A model of the media-query layer of flex-layout: MatchMedia, which      *)
(* multiplexes listeners onto one MediaQueryList per query; the            *)
(* ChangeQueue, which orders de-activations before the single best         *)
(* activation; and the MediaMonitor / MediaService that feed the queue     *)
(* from MatchMedia and publish its output on a BehaviorSubject.            *)
(*                                                                         *)
(* Spec is the MediaMonitor and the MediaService as their constructors     *)
(* build them over one MatchMedia, each with its own queue and subject,    *)
(* in a window whose MediaQueryLists take listeners or in one whose lists  *)
(* do not, driven by the transitions of the window's media queries.        *)
(* SpecQueue drives the                                                    *)
(* ChangeQueue as a unit: any MediaChange may be passed to its public      *)
(* onMediaChange and its public enableAsync field holds either value.      *)
(* The sink does not re-enter the queue: in both owners it is _next,       *)
(* whose subscribers hold no reference to the queue.  SpecReentrant is the *)
(* queue with a sink that does: during one of the calls of a flush it      *)
(* passes a raw change to onMediaChange.  SpecMatchMedia drives MatchMedia *)
(* as a unit: any caller may register any listener for any query, the      *)
(* empty one included.  SpecStream adds the subscribers of the Monitor's   *)
(* and the Facade's streams, SpecBuild calls the breakpoint factories and  *)
(* SpecMock is a test that drives a MockMatchMedia.  SpecShared is the     *)
(* Monitor over ranges that share a query, with subscribers and either     *)
(* flush policy.                                                           *)
(***************************************************************************)
EXTENDS Naturals, Sequences, FiniteSets

VARIABLES
    breakpoints,   \* BreakPointRegistry.items / ChangeQueue._breakpoints, in order
    enableAsync,   \* ChangeQueue.enableAsync
    activated,     \* ChangeQueue._activated
    deactivated,   \* ChangeQueue._deactivated
    debouncing,    \* ChangeQueue._debouncing
    timers,        \* processQueue callbacks handed to setTimeout, not yet run
    media,         \* the window: media query -> whether it matches now
    canListen,     \* the window: whether matchMedia('all').addListener exists
    registry,      \* MatchMedia._registry: the queries that have a MediaQueryList
    listeners,     \* query -> the callbacks added to its MediaQueryList, in order
    notified,      \* history: arguments of the calls of _notify in this tick
    source,        \* history: values given to _source.next in this tick
    received,      \* history: raw changes received since processQueue last ran
    lastFlush,     \* history: what the last processQueue saw, called and published
    flushes,       \* history: runs of processQueue in this tick
    schedules,     \* history: calls of setTimeout in this tick
    tickIn,        \* history: the raw changes given to onMediaChange in this tick
    tickClosed,    \* history: the tick's deferred processQueue has run
    delivered,     \* history: the calls of the other listeners in this tick
    built,         \* history: the queries _buildMQL made a MediaQueryList for
    registrations, \* history: the arguments of the calls of registerQuery
    value,         \* the BehaviorSubject's current value
    observers,     \* subscriber -> the stream it is subscribed to, if any
    inbox,         \* history: subscriber -> what it was given in this tick
    activations,   \* history: the queries MockMatchMedia.activate was called with
    service,       \* MediaService: its ChangeQueue, its subject and their histories
    asked          \* the answer of the last isActive / active / activeOverlaps

vars ==
    <<breakpoints, enableAsync, activated, deactivated, debouncing, timers,
      media, canListen, registry, listeners, notified, source, received, lastFlush,
      flushes, schedules, tickIn, tickClosed, delivered, built, registrations,
      value, observers, inbox, activations, service, asked>>

(***************************************************************************)
(* Bounds.                                                                 *)
(***************************************************************************)
\* the most raw changes one tick (a synchronous burst and its flush) may hold
MaxBurst == 3

\* the most calls of registerQuery a caller of MatchMedia makes
MaxRegistrations == 3

\* a subscriber subscribes while the subscribers hold fewer changes of the tick
MaxGiven == 2

\* the most breakpoints in a list a caller passes to the breakpoint tools
MaxList == 2

\* the most calls of MockMatchMedia.activate a test makes
MaxActivations == 3

(***************************************************************************)
(* Data.                                                                   *)
(***************************************************************************)
\* the null that _announceActivation's reduce starts from
NULL == [null |-> TRUE]

\* an optional string argument that was not passed: no alias and no query
UNDEFINED == "<undefined>"

\* media queries: four that registries use and one custom query of no range
RangeQueries == {"Q1", "Q2", "Q3", "Q4"}

CustomQuery == "QX"

Queries == RangeQueries \cup {CustomQuery}

\* the empty query string, which registerQuery ignores
EmptyQuery == ""

\* the callbacks other than the queue's that callers register with MatchMedia
Listeners == {"L1", "L2"}

\* the query of a MediaChange constructed without one
DefaultQuery == "all"

\* the subscribers of the streams
Subscribers == {"A", "B"}

\* no subscription
NoStream == [stream |-> "none", alias |-> UNDEFINED]

\* monitor.observe(alias) and the Facade's stream (subscribe / asObservable)
ObserveStream(alias) == [stream |-> "observe", alias |-> alias]

MediaStream == [stream |-> "media", alias |-> UNDEFINED]

\* new MediaChange(matches, mediaQuery): mqAlias and suffix default to ''
MediaChange(matches, mediaQuery) ==
    [matches |-> matches, mediaQuery |-> mediaQuery, mqAlias |-> "", suffix |-> ""]

BreakPoint(alias, mediaQuery, overlapping, suffix) ==
    [alias |-> alias, mediaQuery |-> mediaQuery, overlapping |-> overlapping,
     suffix |-> suffix]

\* the two-range registry of the spec's scenario
RegSmGtSm ==
    << BreakPoint("sm", "Q1", FALSE, "Sm"),
       BreakPoint("gt-sm", "Q2", TRUE, "GtSm") >>

\* the first four DEFAULT_BREAKPOINTS, each with a query of its own
RegFour ==
    << BreakPoint("xs", "Q1", FALSE, "Xs"),
       BreakPoint("gt-xs", "Q2", TRUE, "GtXs"),
       BreakPoint("sm", "Q3", FALSE, "Sm"),
       BreakPoint("gt-sm", "Q4", TRUE, "GtSm") >>

\* 'tablet' and 'tablet.landscape' share one query in CUSTOM_BREAKPOINTS
RegShared ==
    << BreakPoint("tablet", "Q1", FALSE, "Tablet"),
       BreakPoint("tablet.landscape", "Q1", FALSE, "TabletLandscape"),
       BreakPoint("web", "Q2", TRUE, "Web") >>

Registries == {RegSmGtSm, RegFour, RegShared}

\* the callback the owner of the queue registers: onMediaChange bound to the queue
QueueCallback == "onChange"

\* the callback MediaService registers: onMediaChange bound to its own queue
ServiceCallback == "MediaService.onChange"

(***************************************************************************)
(* Sequence helpers.                                                       *)
(***************************************************************************)
Range(s) == {s[i] : i \in 1..Len(s)}

Activations(s) == SelectSeq(s, LAMBDA c : c # NULL /\ c.matches)

Deactivations(s) == SelectSeq(s, LAMBDA c : c # NULL /\ ~c.matches)

RegisteredQueries == {breakpoints[i].mediaQuery : i \in 1..Len(breakpoints)}

(***************************************************************************)
(* The mutable state, as a record the handlers transform.                  *)
(***************************************************************************)
State ==
    [activated |-> activated, deactivated |-> deactivated,
     debouncing |-> debouncing, timers |-> timers, registry |-> registry,
     listeners |-> listeners, notified |-> notified, source |-> source,
     received |-> received, lastFlush |-> lastFlush, flushes |-> flushes,
     schedules |-> schedules, tickIn |-> tickIn, delivered |-> delivered,
     built |-> built, registrations |-> registrations, value |-> value,
     observers |-> observers, inbox |-> inbox, activations |-> activations,
     service |-> service, enableAsync |-> enableAsync, owner |-> "MediaMonitor"]

\* the handler's assignments: the state it leaves, evaluated once
SetState(s) ==
    \E next \in {s} :
        /\ activated' = next.activated
        /\ deactivated' = next.deactivated
        /\ debouncing' = next.debouncing
        /\ timers' = next.timers
        /\ registry' = next.registry
        /\ listeners' = next.listeners
        /\ notified' = next.notified
        /\ source' = next.source
        /\ received' = next.received
        /\ lastFlush' = next.lastFlush
        /\ flushes' = next.flushes
        /\ schedules' = next.schedules
        /\ tickIn' = next.tickIn
        /\ delivered' = next.delivered
        /\ built' = next.built
        /\ registrations' = next.registrations
        /\ value' = next.value
        /\ observers' = next.observers
        /\ inbox' = next.inbox
        /\ activations' = next.activations
        /\ service' = next.service

NoFlush ==
    [received |-> <<>>, deactivated |-> <<>>, activated |-> <<>>,
     calls |-> <<>>, published |-> <<>>]

\* the histories of a tick in which nothing has happened yet
NewHistory(s) ==
    [s EXCEPT !.notified = <<>>, !.source = <<>>, !.lastFlush = NoFlush,
              !.flushes = 0, !.schedules = 0, !.tickIn = <<>>,
              !.delivered = <<>>,
              !.inbox = [sub \in Subscribers |-> <<>>],
              !.service = [@ EXCEPT !.notified = <<>>, !.source = <<>>,
                                    !.lastFlush = NoFlush, !.flushes = 0,
                                    !.schedules = 0, !.tickIn = <<>>]]

\* MediaService's fields as its constructor sets them, before it registers:
\* a new ChangeQueue, whose enableAsync is false, and a new BehaviorSubject
NewService ==
    [activated |-> <<>>, deactivated |-> <<>>, debouncing |-> FALSE,
     timers |-> 0, enableAsync |-> FALSE,
     value |-> MediaChange(TRUE, DefaultQuery),
     notified |-> <<>>, source |-> <<>>, received |-> <<>>,
     lastFlush |-> NoFlush, flushes |-> 0, schedules |-> 0, tickIn |-> <<>>]

\* a new ChangeQueue and a new MatchMedia: empty buffers, an empty _registry
NewState ==
    [activated |-> <<>>, deactivated |-> <<>>, debouncing |-> FALSE,
     timers |-> 0, registry |-> {},
     listeners |-> [q \in Queries \cup {EmptyQuery} |-> <<>>],
     notified |-> <<>>, source |-> <<>>, received |-> <<>>,
     lastFlush |-> NoFlush, flushes |-> 0, schedules |-> 0, tickIn |-> <<>>,
     delivered |-> <<>>, built |-> <<>>, registrations |-> <<>>,
     value |-> MediaChange(TRUE, DefaultQuery),
     observers |-> [sub \in Subscribers |-> NoStream],
     inbox |-> [sub \in Subscribers |-> <<>>],
     activations |-> <<>>,
     service |-> NewService, enableAsync |-> FALSE, owner |-> "MediaMonitor"]

\* the queue and the subject the handlers act on are those of the other owner:
\* MediaService's in place of MediaMonitor's, or back
OfOtherOwner(s) ==
    [s EXCEPT !.activated = s.service.activated,
              !.deactivated = s.service.deactivated,
              !.debouncing = s.service.debouncing,
              !.timers = s.service.timers,
              !.enableAsync = s.service.enableAsync,
              !.value = s.service.value,
              !.notified = s.service.notified,
              !.source = s.service.source,
              !.received = s.service.received,
              !.lastFlush = s.service.lastFlush,
              !.flushes = s.service.flushes,
              !.schedules = s.service.schedules,
              !.tickIn = s.service.tickIn,
              !.owner = IF @ = "MediaMonitor" THEN "MediaService"
                        ELSE "MediaMonitor",
              !.service = [activated |-> s.activated,
                           deactivated |-> s.deactivated,
                           debouncing |-> s.debouncing,
                           timers |-> s.timers,
                           enableAsync |-> s.enableAsync,
                           value |-> s.value,
                           notified |-> s.notified,
                           source |-> s.source,
                           received |-> s.received,
                           lastFlush |-> s.lastFlush,
                           flushes |-> s.flushes,
                           schedules |-> s.schedules,
                           tickIn |-> s.tickIn]]

\* the owner of the subject a stream is built on
OwnerOf(stream) ==
    IF stream.stream = "media" THEN "MediaService" ELSE "MediaMonitor"

\* no isActive, active or activeOverlaps has been answered since the last change
NoAnswer == [op |-> "none"]

(***************************************************************************)
(* The streams of MediaMonitor and MediaService.                           *)
(***************************************************************************)
\* BreakPointRegistry.findByAlias
FindByAlias(alias) ==
    LET idx == {i \in 1..Len(breakpoints) : breakpoints[i].alias = alias}
    IN  IF idx = {} THEN NULL
        ELSE breakpoints[CHOOSE i \in idx : \A j \in idx : i <= j]

\* BreakPointRegistry.findByQuery
FindByQuery(query) ==
    LET idx == {i \in 1..Len(breakpoints) : breakpoints[i].mediaQuery = query}
    IN  IF idx = {} THEN NULL
        ELSE breakpoints[CHOOSE i \in idx : \A j \in idx : i <= j]

\* mergeAlias: the change with the breakpoint's alias and suffix, if there is one
MergeAlias(change, bp) ==
    IF bp # NULL
    THEN [change EXCEPT !.mqAlias = bp.alias, !.suffix = bp.suffix]
    ELSE change

RECURSIVE MapMergeAlias(_, _)
MapMergeAlias(changes, bp) ==
    IF changes = <<>> THEN <<>>
    ELSE <<MergeAlias(Head(changes), bp)>> \o MapMergeAlias(Tail(changes), bp)

\* an observe that lets the changes of every query through
ObserveUnfiltered(alias, src) ==
    LET byAlias == FindByAlias(alias)
        bp == IF byAlias # NULL THEN byAlias ELSE FindByQuery(alias)
    IN  MapMergeAlias(src, bp)

\* MediaMonitor.observe(alias), applied to the values its subject emitted
Observe(alias, src) ==
    LET byAlias == FindByAlias(alias)
        bp == IF byAlias # NULL THEN byAlias ELSE FindByQuery(alias)
        mediaQuery == IF bp # NULL THEN bp.mediaQuery ELSE alias
        kept == SelectSeq(src, LAMBDA change :
                    IF alias # UNDEFINED /\ alias # ""
                    THEN change.mediaQuery = mediaQuery ELSE TRUE)
    IN  MapMergeAlias(kept, bp)

\* a Facade stream without its filter on matches
RECURSIVE BuildObservableOfAll(_)
BuildObservableOfAll(src) ==
    IF src = <<>> THEN <<>>
    ELSE <<MergeAlias(Head(src), FindByQuery(Head(src).mediaQuery))>>
             \o BuildObservableOfAll(Tail(src))

\* MediaService._buildObservable, applied to the values its subject emitted:
\* the activations, each with the alias of the breakpoint of its query
RECURSIVE BuildObservable(_)
BuildObservable(src) ==
    IF src = <<>> THEN <<>>
    ELSE IF Head(src).matches = TRUE
         THEN <<MergeAlias(Head(src), FindByQuery(Head(src).mediaQuery))>>
                  \o BuildObservable(Tail(src))
         ELSE BuildObservable(Tail(src))

\* what a subscriber of the stream is given of the values the subject emits.
\* The operators are written for MediaChanges: a value that is none is handed
\* on as it is.
RECURSIVE StreamOf(_, _)
StreamOf(stream, emitted) ==
    IF emitted = <<>> THEN <<>>
    ELSE LET first == Head(emitted)
             given == IF stream.stream = "none" THEN <<>>
                      ELSE IF first = NULL THEN <<NULL>>
                      ELSE IF stream.stream = "observe"
                           THEN Observe(stream.alias, <<first>>)
                           ELSE BuildObservable(<<first>>)
         IN  given \o StreamOf(stream, Tail(emitted))

(***************************************************************************)
(* ChangeQueue.                                                            *)
(***************************************************************************)
\* a _next without its guard
MonitorNextUnguarded(change, src) == Append(src, change)

\* MediaMonitor._next / MediaService._next: a null change is not published
MonitorNext(change, src) ==
    IF change # NULL THEN Append(src, change) ELSE src

\* _next and the subject: what _next gives the subject becomes its value and
\* goes to each subscriber of that subject through the operators of its stream
Publish(change, s) ==
    LET src == MonitorNext(change, s.source)
        new == SubSeq(src, Len(s.source) + 1, Len(src))
    IN  [s EXCEPT !.notified = Append(@, change),
                  !.source = src,
                  !.value = IF new # <<>> THEN new[Len(new)] ELSE @,
                  !.inbox = [sub \in Subscribers |->
                                IF OwnerOf(s.observers[sub]) = s.owner
                                THEN s.inbox[sub] \o StreamOf(s.observers[sub], new)
                                ELSE s.inbox[sub]]]

\* one call of the queue's _notify, which both owners bind to their _next; the
\* argument and the state the call finds are evaluated once
Notify(change, s) ==
    CHOOSE after \in {Publish(given, found) : given \in {change}, found \in {s}} :
        TRUE

\* a queueing in which an activation cancels the buffered de-activations of its query
QueueChangesCancelling(change, s) ==
    IF change.matches
    THEN [s EXCEPT !.activated = Append(@, change),
                   !.deactivated = SelectSeq(@, LAMBDA c :
                                       c.mediaQuery # change.mediaQuery)]
    ELSE [s EXCEPT !.deactivated = Append(@, change)]

\* ChangeQueue._queueChanges
QueueChanges(change, s) ==
    IF change.matches
    THEN [s EXCEPT !.activated = Append(@, change)]
    ELSE [s EXCEPT !.deactivated = Append(@, change)]

RECURSIVE FindReduce(_, _, _)
FindReduce(result, bp, rest) ==
    IF rest = <<>> THEN result
    ELSE FindReduce(IF result # NULL THEN result
                    ELSE IF Head(rest).mediaQuery = bp.mediaQuery
                         THEN Head(rest) ELSE NULL,
                    bp, Tail(rest))

\* ChangeQueue._findActivationFor
FindActivationFor(bp, act) == FindReduce(NULL, bp, act)

RECURSIVE FirstActivationReduce(_, _, _)
FirstActivationReduce(change, bps, act) ==
    IF bps = <<>> THEN change
    ELSE FirstActivationReduce(IF change # NULL THEN change
                               ELSE FindActivationFor(Head(bps), act),
                               Tail(bps), act)

\* a lookup that takes the activation that arrived first, whatever its range
FindFirstActivationByArrival(bps, act) ==
    LET known == SelectSeq(act, LAMBDA c :
                     \E i \in 1..Len(bps) : bps[i].mediaQuery = c.mediaQuery)
    IN  IF known = <<>> THEN NULL ELSE Head(known)

\* the reduce of _announceActivation: the change it hands to _notify
FindFirstActivation(bps, act) == FirstActivationReduce(NULL, bps, act)

RECURSIVE NotifyEach(_, _)
NotifyEach(changes, s) ==
    IF changes = <<>> THEN s
    ELSE NotifyEach(Tail(changes), Notify(Head(changes), s))

\* an announcement that skips the de-activations of no registered range
AnnounceDeactivationsOfRanges(s) ==
    [NotifyEach(SelectSeq(s.deactivated, LAMBDA c :
                    \E i \in 1..Len(breakpoints) :
                        breakpoints[i].mediaQuery = c.mediaQuery), s)
        EXCEPT !.deactivated = <<>>]

\* ChangeQueue._announceDeactivations
AnnounceDeactivations(s) ==
    [NotifyEach(s.deactivated, s) EXCEPT !.deactivated = <<>>]

\* ChangeQueue._announceActivation
AnnounceActivation(s) ==
    [Notify(FindFirstActivation(breakpoints, s.activated), s)
        EXCEPT !.activated = <<>>]

\* a processQueue that leaves the pending flag set
RunProcessQueueKeepsFlag(s) ==
    AnnounceActivation(AnnounceDeactivations(s))

\* a processQueue that announces the activation first
RunProcessQueueActivationFirst(s) ==
    [AnnounceDeactivations(AnnounceActivation(s)) EXCEPT !.debouncing = FALSE]

\* the body of processQueue, in the order the closure runs it
RunProcessQueue(s) ==
    [AnnounceActivation(AnnounceDeactivations(s)) EXCEPT !.debouncing = FALSE]

\* processQueue, with the record of what this run saw, called and published
ProcessQueue(s) ==
    LET r == RunProcessQueue(s)
    IN  [r EXCEPT !.flushes = @ + 1,
                  !.received = <<>>,
                  !.lastFlush =
                      [received |-> s.received,
                       deactivated |-> s.deactivated,
                       activated |-> s.activated,
                       calls |-> SubSeq(r.notified, Len(s.notified) + 1,
                                        Len(r.notified)),
                       published |-> SubSeq(r.source, Len(s.source) + 1,
                                            Len(r.source))]]

\* a guard that forgets the pending flag
MayProcessAlways(s) == TRUE

\* the guard of onMediaChange: no processQueue is pending
MayProcess(s) == ~s.debouncing

\* ChangeQueue.onMediaChange
OnMediaChange(change, s) ==
    LET q == [QueueChanges(change, s) EXCEPT !.received = Append(@, change),
                                              !.tickIn = Append(@, change)]
    IN  IF MayProcess(q)
        THEN LET d == [q EXCEPT !.debouncing = TRUE]
             IN  IF d.enableAsync
                 THEN [d EXCEPT !.timers = @ + 1, !.schedules = @ + 1]
                 ELSE ProcessQueue(d)
        ELSE q

\* what a sink does that re-enters the queue: during the call of _notify of
\* this number in a flush it passes the change to onMediaChange; NoPlan is the
\* sink that does not
NoPlan == [at |-> 0, change |-> NULL]

\* one call of _notify to such a sink: processQueue is running, so the change
\* the sink passes in is queued and no more
NotifyReentering(change, k, plan, s) ==
    LET n == Notify(change, s)
    IN  IF plan.at = k THEN OnMediaChange(plan.change, n) ELSE n

RECURSIVE NotifyEachReentering(_, _, _, _)
NotifyEachReentering(changes, k, plan, s) ==
    IF changes = <<>> THEN s
    ELSE NotifyEachReentering(Tail(changes), k + 1, plan,
                              NotifyReentering(Head(changes), k, plan, s))

\* ChangeQueue._announceDeactivations: forEach visits the elements the array
\* has when it starts, and the array is emptied after it
AnnounceDeactivationsReentering(plan, s) ==
    [NotifyEachReentering(s.deactivated, 1, plan, s) EXCEPT !.deactivated = <<>>]

\* ChangeQueue._announceActivation: the reduce is evaluated before _notify is
\* called, and the array is emptied after the call
AnnounceActivationReentering(k, plan, s) ==
    [NotifyReentering(FindFirstActivation(breakpoints, s.activated), k, plan, s)
        EXCEPT !.activated = <<>>]

\* processQueue with such a sink, with the record of the run: the raw changes
\* received up to its end, the de-activations forEach visited, the activations
\* the reduce saw, the calls and what was published
ProcessQueueReentering(plan, s) ==
    LET d == AnnounceDeactivationsReentering(plan, s)
        r == [AnnounceActivationReentering(Len(s.deactivated) + 1, plan, d)
                 EXCEPT !.debouncing = FALSE]
    IN  [r EXCEPT !.flushes = @ + 1,
                  !.received = <<>>,
                  !.lastFlush =
                      [received |-> r.received,
                       deactivated |-> s.deactivated,
                       activated |-> d.activated,
                       calls |-> SubSeq(r.notified, Len(s.notified) + 1,
                                        Len(r.notified)),
                       published |-> SubSeq(r.source, Len(s.source) + 1,
                                            Len(r.source))]]

\* ChangeQueue.onMediaChange with such a sink
OnMediaChangeReentering(change, plan, s) ==
    LET q == [QueueChanges(change, s) EXCEPT !.received = Append(@, change),
                                              !.tickIn = Append(@, change)]
    IN  IF MayProcess(q)
        THEN LET d == [q EXCEPT !.debouncing = TRUE]
             IN  IF d.enableAsync
                 THEN [d EXCEPT !.timers = @ + 1, !.schedules = @ + 1]
                 ELSE ProcessQueueReentering(plan, d)
        ELSE q

(***************************************************************************)
(* MatchMedia.                                                             *)
(***************************************************************************)
\* mql.matches of the MediaQueryList _buildMQL makes: the window's evaluation
\* of the query (the empty query matches as 'all' does) when the window's
\* lists take listeners, and else that of the substitute object, which
\* matches for 'all' and '' only
MqlMatches(mediaQuery) ==
    IF canListen
    THEN IF mediaQuery = EmptyQuery THEN TRUE ELSE media[mediaQuery]
    ELSE mediaQuery \in {DefaultQuery, EmptyQuery}

\* mql.addListener: the substitute object's addListener does nothing
AddListener(mediaQuery, callback, s) ==
    IF canListen
    THEN [s EXCEPT !.listeners[mediaQuery] = Append(@, callback)]
    ELSE s

\* an isActive that asks the window and not the _registry
IsActiveOfWindow(mediaQuery, s) ==
    IF mediaQuery \in Queries THEN MqlMatches(mediaQuery) ELSE FALSE

\* MatchMedia.isActive
IsActive(mediaQuery, s) ==
    IF mediaQuery \in s.registry THEN MqlMatches(mediaQuery) ELSE FALSE

\* a registered callback is called with a change
Invoke(callback, change, s) ==
    IF callback = QueueCallback
    THEN OnMediaChange(change, s)
    ELSE IF callback = ServiceCallback
    THEN OfOtherOwner(OnMediaChange(change, OfOtherOwner(s)))
    ELSE [s EXCEPT !.delivered =
             Append(@, [listener |-> callback, change |-> change])]

\* a lookup that builds a MediaQueryList whether or not the _registry has one
GetOrBuildMQLAnew(mediaQuery, s) ==
    [s EXCEPT !.registry = @ \cup {mediaQuery},
              !.built = Append(@, mediaQuery)]

\* the lookup of registerQuery: _buildMQL only when the _registry has no entry
GetOrBuildMQL(mediaQuery, s) ==
    IF mediaQuery \in s.registry THEN s
    ELSE [s EXCEPT !.registry = @ \cup {mediaQuery},
                   !.built = Append(@, mediaQuery)]

\* a registerQuery that does not announce the range that is active already
RegisterQuerySilently(mediaQuery, callback, s) ==
    LET c == [s EXCEPT !.registrations = Append(@, <<mediaQuery, callback>>)]
    IN  IF mediaQuery # EmptyQuery
        THEN AddListener(mediaQuery, callback, GetOrBuildMQL(mediaQuery, c))
        ELSE c

\* a registerQuery without the test of its query
RegisterQueryOfAny(mediaQuery, callback, s) ==
    LET c == [s EXCEPT !.registrations = Append(@, <<mediaQuery, callback>>)]
        r == AddListener(mediaQuery, callback, GetOrBuildMQL(mediaQuery, c))
    IN  IF MqlMatches(mediaQuery)
        THEN Invoke(callback, MediaChange(TRUE, mediaQuery), r)
        ELSE r

\* MatchMedia.registerQuery
RegisterQuery(mediaQuery, callback, s) ==
    LET c == [s EXCEPT !.registrations = Append(@, <<mediaQuery, callback>>)]
    IN  IF mediaQuery # EmptyQuery
        THEN LET r == AddListener(mediaQuery, callback,
                                   GetOrBuildMQL(mediaQuery, c))
             IN  IF MqlMatches(mediaQuery)
                 THEN Invoke(callback, MediaChange(TRUE, mediaQuery), r)
                 ELSE r
        ELSE c

RECURSIVE DispatchEach(_, _, _)
DispatchEach(callbacks, change, s) ==
    IF callbacks = <<>> THEN s
    ELSE DispatchEach(Tail(callbacks), change, Invoke(Head(callbacks), change, s))

\* a firing that reaches the listeners of every MediaQueryList
DispatchToAll(mediaQuery, matches, s) ==
    DispatchEach(s.listeners["Q1"] \o s.listeners["Q2"],
                 MediaChange(matches, mediaQuery), s)

\* a MediaQueryList fires: each onMQLEvent added to it calls its callback
Dispatch(mediaQuery, matches, s) ==
    DispatchEach(s.listeners[mediaQuery], MediaChange(matches, mediaQuery), s)

(***************************************************************************)
(* MediaMonitor and MediaService.                                          *)
(***************************************************************************)
RECURSIVE RegisterEach(_, _, _)
RegisterEach(bps, onChange, s) ==
    IF bps = <<>> THEN s
    ELSE RegisterEach(Tail(bps), onChange,
                      RegisterQuery(Head(bps).mediaQuery, onChange, s))

\* MediaMonitor._registerBreakpoints
RegisterBreakpoints(s) == RegisterEach(breakpoints, QueueCallback, s)

\* MediaService._registerBreakPoints
RegisterBreakPoints(s) == RegisterEach(breakpoints, ServiceCallback, s)

\* Array.prototype.reverse
RECURSIVE Reverse(_)
Reverse(items) ==
    IF items = <<>> THEN <<>> ELSE Append(Reverse(Tail(items)), Head(items))

\* BreakPointRegistry.overlappings: a new list of the items flagged overlapping
Overlappings == SelectSeq(breakpoints, LAMBDA bp : bp.overlapping = TRUE)

\* an activeOverlaps that keeps the order of the registry
ActiveOverlapsInRegistryOrder(s) ==
    SelectSeq(Overlappings, LAMBDA bp : IsActive(bp.mediaQuery, s))

\* MediaMonitor.activeOverlaps
ActiveOverlaps(s) ==
    SelectSeq(Reverse(Overlappings), LAMBDA bp : IsActive(bp.mediaQuery, s))

\* a getter that hands out the registry's own array
MonitorBreakpointsShared == [items |-> breakpoints, own |-> TRUE]

\* MediaMonitor.breakpoints: a new array of the registry's items
MonitorBreakpoints == [items |-> breakpoints, own |-> FALSE]

\* the registry's items after array.reverse(), which reverses in place: they
\* are reversed if the array is the registry's own
ItemsAfterReverse(array) ==
    IF array.own THEN Reverse(breakpoints) ELSE breakpoints

\* the forEach of MediaMonitor.active: the first active item that has an alias
RECURSIVE FindActive(_, _, _)
FindActive(found, items, s) ==
    IF items = <<>> THEN found
    ELSE FindActive(IF /\ Head(items).alias # ""
                       /\ found = NULL
                       /\ IsActive(Head(items).mediaQuery, s)
                    THEN Head(items) ELSE found,
                    Tail(items), s)

\* MediaMonitor.active
Active(s) ==
    LET found == FindActive(NULL, Reverse(breakpoints), s)
        first == breakpoints[1]
    IN  IF found # NULL THEN found
        ELSE IF IsActive(first.mediaQuery, s) THEN first ELSE NULL

\* MediaMonitor.isActive
MonitorIsActive(alias, s) ==
    LET byAlias == FindByAlias(alias)
        bp == IF byAlias # NULL THEN byAlias ELSE FindByQuery(alias)
    IN  IsActive(IF bp # NULL THEN bp.mediaQuery ELSE alias, s)

\* MediaService._toMediaQuery
ToMediaQuery(query) ==
    LET byAlias == FindByAlias(query)
        bp == IF byAlias # NULL THEN byAlias ELSE FindByQuery(query)
    IN  IF bp # NULL THEN bp.mediaQuery ELSE query

\* MediaService.isActive
ServiceIsActive(alias, s) == IsActive(ToMediaQuery(alias), s)

(***************************************************************************)
(* The breakpoint lists and the tools that build them.  An alias and a     *)
(* suffix are the sequences of their characters, so that the suffix of an  *)
(* alias is computed from it.  A breakpoint written without a suffix has   *)
(* the empty one, which validateSuffixes treats alike; one written without *)
(* overlapping has it false.                                               *)
(***************************************************************************)
NoSuffix == <<>>

\* the characters that delimit the segments of an alias
AliasDelimiters == {".", "-", "_"}

LowerCase == <<"a", "b", "c", "d", "e", "f", "g", "h", "i", "j", "k", "l", "m", "n", "o", "p", "q", "r", "s", "t", "u", "v", "w", "x", "y", "z">>

UpperCase == <<"A", "B", "C", "D", "E", "F", "G", "H", "I", "J", "K", "L", "M", "N", "O", "P", "Q", "R", "S", "T", "U", "V", "W", "X", "Y", "Z">>

\* String.prototype.toUpperCase of one character
ToUpperCase(c) ==
    LET idx == {i \in 1..Len(LowerCase) : LowerCase[i] = c}
    IN  IF idx = {} THEN c ELSE UpperCase[CHOOSE i \in idx : TRUE]

\* the characters with the first of each segment in upper case and the
\* delimiters left out
RECURSIVE CamelCaseFrom(_, _)
CamelCaseFrom(chars, segmentStart) ==
    IF chars = <<>> THEN <<>>
    ELSE IF Head(chars) \in AliasDelimiters
         THEN CamelCaseFrom(Tail(chars), TRUE)
         ELSE <<IF segmentStart THEN ToUpperCase(Head(chars)) ELSE Head(chars)>>
                  \o CamelCaseFrom(Tail(chars), FALSE)

\* the suffix derived from an alias
CamelCase(name) == CamelCaseFrom(name, TRUE)

\* a validation that derives the suffix of every breakpoint anew
RECURSIVE ValidateSuffixesAnew(_)
ValidateSuffixesAnew(list) ==
    IF list = <<>> THEN <<>>
    ELSE <<[Head(list) EXCEPT !.suffix = CamelCase(Head(list).alias)]>>
             \o ValidateSuffixesAnew(Tail(list))

\* validateSuffixes: a breakpoint that has no suffix is given the one derived
\* from its alias
RECURSIVE ValidateSuffixes(_)
ValidateSuffixes(list) ==
    IF list = <<>> THEN <<>>
    ELSE <<IF Head(list).suffix = NoSuffix
           THEN [Head(list) EXCEPT !.suffix = CamelCase(Head(list).alias)]
           ELSE Head(list)>>
             \o ValidateSuffixes(Tail(list))

\* the aliases of a list, in its order
RECURSIVE AliasesOf(_)
AliasesOf(list) ==
    IF list = <<>> THEN <<>>
    ELSE <<Head(list).alias>> \o AliasesOf(Tail(list))

\* a merge that moves an overridden breakpoint to the end of the list
MergeOneAtEnd(merged, bp) ==
    SelectSeq(merged, LAMBDA other : other.alias # bp.alias) \o <<bp>>

\* the list with the breakpoint in the place of the one of its alias, or at
\* the end if there is none
RECURSIVE MergeOne(_, _)
MergeOne(merged, bp) ==
    IF merged = <<>> THEN <<bp>>
    ELSE IF Head(merged).alias = bp.alias
         THEN <<bp>> \o Tail(merged)
         ELSE <<Head(merged)>> \o MergeOne(Tail(merged), bp)

RECURSIVE MergeEach(_, _)
MergeEach(merged, custom) ==
    IF custom = <<>> THEN merged
    ELSE MergeEach(MergeOne(merged, Head(custom)), Tail(custom))

\* a merge that puts the custom list after the defaults
MergeByConcat(defaults, custom) == ValidateSuffixes(defaults \o custom)

\* mergeByAlias: a custom breakpoint overrides the default of its alias, or is
\* appended if there is none; the suffixes of the result are validated
MergeByAlias(defaults, custom) == ValidateSuffixes(MergeEach(defaults, custom))

\* RESPONSIVE_ALIASES
RESPONSIVE_ALIASES ==
    << <<"x", "s">>,
       <<"g", "t", "-", "x", "s">>,
       <<"s", "m">>,
       <<"g", "t", "-", "s", "m">>,
       <<"m", "d">>,
       <<"g", "t", "-", "m", "d">>,
       <<"l", "g">>,
       <<"g", "t", "-", "l", "g">>,
       <<"x", "l">> >>

\* DEFAULT_BREAKPOINTS
DEFAULT_BREAKPOINTS ==
    << BreakPoint(<<"x", "s">>,
                  "screen and (max-width: 599px)",
                  FALSE, NoSuffix),
       BreakPoint(<<"g", "t", "-", "x", "s">>,
                  "screen and (min-width: 600px)",
                  TRUE, NoSuffix),
       BreakPoint(<<"s", "m">>,
                  "screen and (min-width: 600px) and (max-width: 959px)",
                  FALSE, NoSuffix),
       BreakPoint(<<"g", "t", "-", "s", "m">>,
                  "screen and (min-width: 960px)",
                  TRUE, NoSuffix),
       BreakPoint(<<"m", "d">>,
                  "screen and (min-width: 960px) and (max-width: 1279px)",
                  FALSE, NoSuffix),
       BreakPoint(<<"g", "t", "-", "m", "d">>,
                  "screen and (min-width: 1280px)",
                  TRUE, NoSuffix),
       BreakPoint(<<"l", "g">>,
                  "screen and (min-width: 1280px) and (max-width: 1919px)",
                  FALSE, NoSuffix),
       BreakPoint(<<"g", "t", "-", "l", "g">>,
                  "screen and (min-width: 1920px)",
                  TRUE, NoSuffix),
       BreakPoint(<<"x", "l">>,
                  "screen and (min-width: 1920px) and (max-width: 5000px)",
                  FALSE, NoSuffix) >>

\* CUSTOM_BREAKPOINTS, each query named by its key in ScreenTypes
CUSTOM_BREAKPOINTS ==
    << BreakPoint(<<"h", "a", "n", "d", "s", "e", "t">>,
                  "HANDSET",
                  FALSE, NoSuffix),
       BreakPoint(<<"h", "a", "n", "d", "s", "e", "t", ".", "l", "a", "n", "d", "s", "c", "a", "p", "e">>,
                  "HANDSET_LANDSCAPE",
                  FALSE, NoSuffix),
       BreakPoint(<<"h", "a", "n", "d", "s", "e", "t", ".", "p", "o", "r", "t", "r", "a", "i", "t">>,
                  "HANDSET_PORTRAIT",
                  FALSE, NoSuffix),
       BreakPoint(<<"t", "a", "b", "l", "e", "t">>,
                  "TABLET",
                  FALSE, NoSuffix),
       BreakPoint(<<"t", "a", "b", "l", "e", "t", ".", "l", "a", "n", "d", "s", "c", "a", "p", "e">>,
                  "TABLET",
                  FALSE, NoSuffix),
       BreakPoint(<<"t", "a", "b", "l", "e", "t", ".", "p", "o", "r", "t", "r", "a", "i", "t">>,
                  "TABLET_PORTRAIT",
                  FALSE, NoSuffix),
       BreakPoint(<<"w", "e", "b">>,
                  "WEB",
                  TRUE, NoSuffix),
       BreakPoint(<<"w", "e", "b", ".", "l", "a", "n", "d", "s", "c", "a", "p", "e">>,
                  "WEB_LANDSCAPE",
                  TRUE, NoSuffix),
       BreakPoint(<<"w", "e", "b", ".", "p", "o", "r", "t", "r", "a", "i", "t">>,
                  "WEB_PORTRAIT",
                  TRUE, NoSuffix) >>

\* buildValidatedList
BuildValidatedList == ValidateSuffixes(DEFAULT_BREAKPOINTS)

\* a factory that puts the defaults before the built-in custom breakpoints
MergedBreakPointFactoryDefaultsFirst(custom) ==
    MergeByAlias(DEFAULT_BREAKPOINTS \o CUSTOM_BREAKPOINTS, custom)

\* the factory _mergedBreakPointFactory(_custom) returns, called
MergedBreakPointFactory(custom) ==
    MergeByAlias(CUSTOM_BREAKPOINTS \o DEFAULT_BREAKPOINTS, custom)

\* _mergedDefaults
MergedDefaults == ValidateSuffixes(DEFAULT_BREAKPOINTS \o CUSTOM_BREAKPOINTS)

(***************************************************************************)
(* The ChangeQueue as a unit.                                              *)
(***************************************************************************)
\* new ChangeQueue(notify, breakpoints), its owner then setting enableAsync
InitQueue ==
    /\ breakpoints \in Registries
    /\ enableAsync \in BOOLEAN
    /\ media = [q \in Queries |-> FALSE]
    /\ canListen = TRUE
    /\ activated = NewState.activated
    /\ deactivated = NewState.deactivated
    /\ debouncing = NewState.debouncing
    /\ timers = NewState.timers
    /\ registry = NewState.registry
    /\ listeners = NewState.listeners
    /\ notified = <<>>
    /\ source = <<>>
    /\ received = <<>>
    /\ lastFlush = NoFlush
    /\ flushes = 0
    /\ schedules = 0
    /\ tickIn = <<>>
    /\ tickClosed = FALSE
    /\ delivered = <<>>
    /\ built = <<>>
    /\ registrations = <<>>
    /\ value = NewState.value
    /\ observers = NewState.observers
    /\ inbox = NewState.inbox
    /\ activations = NewState.activations
    /\ service = NewService
    /\ asked = NoAnswer

\* a caller passes one raw change to onMediaChange
RawChange(change) ==
    /\ ~tickClosed
    /\ Len(tickIn) < MaxBurst
    /\ SetState(OnMediaChange(change, State))
    /\ asked' = NoAnswer
    /\ UNCHANGED <<breakpoints, canListen, enableAsync, media, tickClosed>>

\* the event loop runs the processQueue that setTimeout(processQueue, 0) queued
TimerFire ==
    /\ timers > 0
    /\ SetState([ProcessQueue(State) EXCEPT !.timers = @ - 1])
    /\ tickClosed' = TRUE
    /\ asked' = NoAnswer
    /\ UNCHANGED <<breakpoints, canListen, enableAsync, media>>

\* the tick is over: nothing of it is pending, and the histories start again
NewTick ==
    /\ timers = 0
    /\ \/ tickIn # <<>>
       \/ delivered # <<>>
       \/ \E sub \in Subscribers : inbox[sub] # <<>>
    /\ SetState(NewHistory(State))
    /\ tickClosed' = FALSE
    /\ asked' = NoAnswer
    /\ UNCHANGED <<breakpoints, canListen, enableAsync, media>>

\* the queue driven with raw changes of the queries `qs`
NextOver(qs) ==
    \/ \E q \in qs, m \in BOOLEAN : RawChange(MediaChange(m, q))
    \/ TimerFire
    \/ NewTick

NextQueue == NextOver(Queries)

SpecQueue == InitQueue /\ [][NextQueue]_vars

\* the queries of the raw changes SpecQueueFair draws: one of a range, one of none
FlushQueries == {"Q1", CustomQuery}

\* setTimeout(processQueue, 0) runs its callback: the event loop is fair to it
SpecQueueFair ==
    InitQueue /\ [][NextOver(FlushQueries)]_vars /\ WF_vars(TimerFire)

(***************************************************************************)
(* The ChangeQueue with a sink that re-enters it.                          *)
(***************************************************************************)
\* what the sink may do in a flush: nothing, or pass one raw change in during
\* one of the calls
Plans ==
    {NoPlan} \cup {[at |-> k, change |-> MediaChange(m, q)] :
                       k \in 1..MaxBurst, m \in BOOLEAN, q \in FlushQueries}

\* the raw changes the flush may hold with what the sink adds
FitsBurst(plan) == plan = NoPlan \/ Len(tickIn) + 1 < MaxBurst

\* a caller passes one raw change to onMediaChange
RawChangeReentering(change, plan) ==
    /\ ~tickClosed
    /\ Len(tickIn) < MaxBurst
    /\ FitsBurst(plan)
    /\ SetState(OnMediaChangeReentering(change, plan, State))
    /\ asked' = NoAnswer
    /\ UNCHANGED <<breakpoints, canListen, enableAsync, media, tickClosed>>

\* the event loop runs the processQueue that setTimeout(processQueue, 0) queued
TimerFireReentering(plan) ==
    /\ timers > 0
    /\ plan = NoPlan \/ Len(tickIn) < MaxBurst
    /\ SetState([ProcessQueueReentering(plan, State) EXCEPT !.timers = @ - 1])
    /\ tickClosed' = TRUE
    /\ asked' = NoAnswer
    /\ UNCHANGED <<breakpoints, canListen, enableAsync, media>>

NextReentrant ==
    \/ \E q \in FlushQueries, m \in BOOLEAN, plan \in Plans :
           RawChangeReentering(MediaChange(m, q), plan)
    \/ \E plan \in Plans : TimerFireReentering(plan)
    \/ NewTick

SpecReentrant == InitQueue /\ [][NextReentrant]_vars

(***************************************************************************)
(* MatchMedia as a unit.                                                   *)
(***************************************************************************)
\* the listeners of the query whose calls tickIn and delivered record: all but
\* MediaService's
HeardInBurst(q) == SelectSeq(listeners[q], LAMBDA cb : cb # ServiceCallback)

\* the window's evaluation of one media query flips, and its MediaQueryList,
\* if MatchMedia holds one, fires its listeners
Transition(q) ==
    /\ ~tickClosed
    /\ Len(tickIn) + Len(delivered) + Len(HeardInBurst(q)) <= MaxBurst
    /\ media' = [media EXCEPT ![q] = ~@]
    /\ SetState(Dispatch(q, ~media[q], State))
    /\ asked' = NoAnswer
    /\ UNCHANGED <<breakpoints, canListen, enableAsync, tickClosed>>

\* the queries the callers of MatchMedia register and the window flips
AdapterQueries == {"Q1", "Q2"}

\* new MatchMedia(), in a window where each of those queries matches or not
InitMatchMedia ==
    /\ breakpoints = RegSmGtSm
    /\ enableAsync = FALSE
    /\ media \in [Queries -> BOOLEAN]
    /\ canListen \in BOOLEAN
    /\ \A q \in Queries \ AdapterQueries : ~media[q]
    /\ activated = NewState.activated
    /\ deactivated = NewState.deactivated
    /\ debouncing = NewState.debouncing
    /\ timers = NewState.timers
    /\ registry = NewState.registry
    /\ listeners = NewState.listeners
    /\ notified = <<>>
    /\ source = <<>>
    /\ received = <<>>
    /\ lastFlush = NoFlush
    /\ flushes = 0
    /\ schedules = 0
    /\ tickIn = <<>>
    /\ tickClosed = FALSE
    /\ delivered = <<>>
    /\ built = <<>>
    /\ registrations = <<>>
    /\ value = NewState.value
    /\ observers = NewState.observers
    /\ inbox = NewState.inbox
    /\ activations = NewState.activations
    /\ service = NewService
    /\ asked = NoAnswer

\* a caller registers a listener of its own: matchMedia.registerQuery(q, cb)
Register(q, cb) ==
    /\ Len(registrations) < MaxRegistrations
    /\ SetState(RegisterQuery(q, cb, State))
    /\ asked' = NoAnswer
    /\ UNCHANGED <<breakpoints, canListen, enableAsync, media, tickClosed>>

NextMatchMedia ==
    \/ \E q \in AdapterQueries \cup {EmptyQuery}, cb \in Listeners :
           Register(q, cb)
    \/ \E q \in AdapterQueries : Transition(q)
    \/ NewTick

SpecMatchMedia == InitMatchMedia /\ [][NextMatchMedia]_vars

(***************************************************************************)
(* The MediaMonitor, as constructed.                                       *)
(***************************************************************************)
\* new MediaMonitor(breakpoints, matchMedia) and then new
\* MediaService(matchMedia, breakpoints), over the one MatchMedia: enableAsync
\* of each queue keeps its initial false, and _registerBreakpoints and
\* _registerBreakPoints have run against the window's media
Init ==
    /\ breakpoints \in Registries
    /\ enableAsync = FALSE
    /\ media \in [Queries -> BOOLEAN]
    /\ canListen \in BOOLEAN
    /\ LET s == NewHistory(RegisterBreakPoints(RegisterBreakpoints(NewState)))
       IN  /\ activated = s.activated
           /\ deactivated = s.deactivated
           /\ debouncing = s.debouncing
           /\ timers = s.timers
           /\ registry = s.registry
           /\ listeners = s.listeners
           /\ notified = s.notified
           /\ source = s.source
           /\ received = s.received
           /\ lastFlush = s.lastFlush
           /\ flushes = s.flushes
           /\ schedules = s.schedules
           /\ tickIn = s.tickIn
           /\ delivered = s.delivered
           /\ built = s.built
           /\ registrations = s.registrations
           /\ value = s.value
           /\ observers = s.observers
           /\ inbox = s.inbox
           /\ activations = s.activations
           /\ service = s.service
    /\ tickClosed = FALSE
    /\ asked = NoAnswer

\* the arguments isActive is called with: aliases, queries of ranges, a custom
\* query that matches in the window, and the empty string
IsActiveArgs == {"sm", "tablet.landscape", "Q2", "Q4", CustomQuery, EmptyQuery}

\* a caller asks monitor.isActive(alias) and the Facade's isActive(alias)
CallIsActive(alias) ==
    /\ asked' = [op |-> "isActive", alias |-> alias,
                 monitor |-> MonitorIsActive(alias, State),
                 service |-> ServiceIsActive(alias, State)]
    /\ UNCHANGED <<breakpoints, canListen, enableAsync, activated, deactivated,
                   debouncing, timers, media, registry, listeners, notified,
                   source, received, lastFlush, flushes, schedules, tickIn,
                   tickClosed, delivered, built, registrations, value,
                   observers, inbox, activations, service>>

\* a caller reads monitor.breakpoints
GetBreakpoints ==
    /\ asked' = [op |-> "breakpoints", result |-> MonitorBreakpoints.items]
    /\ UNCHANGED <<breakpoints, canListen, enableAsync, activated, deactivated,
                   debouncing, timers, media, registry, listeners, notified,
                   source, received, lastFlush, flushes, schedules, tickIn,
                   tickClosed, delivered, built, registrations, value,
                   observers, inbox, activations, service>>

\* a caller reads monitor.active, which reverses this.breakpoints
GetActive ==
    /\ asked' = [op |-> "active", result |-> Active(State)]
    /\ breakpoints' = ItemsAfterReverse(MonitorBreakpoints)
    /\ UNCHANGED <<canListen, enableAsync, activated, deactivated,
                   debouncing, timers, media, registry, listeners, notified,
                   source, received, lastFlush, flushes, schedules, tickIn,
                   tickClosed, delivered, built, registrations, value,
                   observers, inbox, activations, service>>

\* a caller reads monitor.activeOverlaps
GetActiveOverlaps ==
    /\ asked' = [op |-> "activeOverlaps", result |-> ActiveOverlaps(State)]
    /\ UNCHANGED <<breakpoints, canListen, enableAsync, activated, deactivated,
                   debouncing, timers, media, registry, listeners, notified,
                   source, received, lastFlush, flushes, schedules, tickIn,
                   tickClosed, delivered, built, registrations, value,
                   observers, inbox, activations, service>>

Next ==
    \/ \E q \in Queries : Transition(q)
    \/ NewTick
    \/ \E alias \in IsActiveArgs : CallIsActive(alias)
    \/ GetBreakpoints
    \/ GetActive
    \/ GetActiveOverlaps

Spec == Init /\ [][Next]_vars

(***************************************************************************)
(* The streams and their subscribers.                                      *)
(***************************************************************************)
\* the streams subscribed to: every change, the changes of one alias, and the
\* Facade's
Streams == {ObserveStream(UNDEFINED), ObserveStream("sm"), MediaStream}

\* how many changes the subscribers were given in this tick
GivenInTick == Len(inbox["A"]) + Len(inbox["B"])

\* a subject that gives a new subscriber nothing of what it emitted before
ReplayNothing(stream, current) == <<>>

\* a BehaviorSubject gives a new subscriber its current value
Replay(stream, current) == StreamOf(stream, <<current>>)

\* a subscriber subscribes to a stream
Subscribe(sub, stream) ==
    /\ observers[sub] = NoStream
    /\ GivenInTick < MaxGiven
    /\ SetState([State EXCEPT
           !.observers = [@ EXCEPT ![sub] = stream],
           !.inbox = [@ EXCEPT ![sub] = @ \o Replay(stream,
                          IF OwnerOf(stream) = "MediaService"
                          THEN service.value ELSE value)]])
    /\ asked' = NoAnswer
    /\ UNCHANGED <<breakpoints, canListen, enableAsync, media, tickClosed>>

\* an unsubscribing that ends every subscription
RemoveEveryObserver(sub, subscribed) == [other \in Subscribers |-> NoStream]

\* Subscription.unsubscribe
RemoveObserver(sub, subscribed) == [subscribed EXCEPT ![sub] = NoStream]

\* the subscriber ends its subscription
Unsubscribe(sub) ==
    /\ observers[sub] # NoStream
    /\ SetState([State EXCEPT !.observers = RemoveObserver(sub, @)])
    /\ asked' = NoAnswer
    /\ UNCHANGED <<breakpoints, canListen, enableAsync, media, tickClosed>>

\* a Monitor and a Facade over sm and gt-sm, in a window where each matches
\* or not
InitStream ==
    /\ Init
    /\ breakpoints = RegSmGtSm
    /\ \A q \in Queries \ AdapterQueries : ~media[q]

NextStream ==
    \/ \E sub \in Subscribers, stream \in Streams : Subscribe(sub, stream)
    \/ \E sub \in Subscribers : Unsubscribe(sub)
    \/ \E q \in AdapterQueries : Transition(q)
    \/ NewTick

SpecStream == InitStream /\ [][NextStream]_vars

(***************************************************************************)
(* A Monitor over ranges that share a query, under both flush policies.    *)
(***************************************************************************)
\* the owner of the Monitor assigns _asyncQueue.enableAsync, between two ticks
SetEnableAsync(policy) ==
    /\ enableAsync # policy
    /\ timers = 0
    /\ tickIn = <<>>
    /\ enableAsync' = policy
    /\ asked' = NoAnswer
    /\ UNCHANGED <<breakpoints, canListen, activated, deactivated, debouncing,
                   timers,
                   media, registry, listeners, notified, source, received,
                   lastFlush, flushes, schedules, tickIn, tickClosed,
                   delivered, built, registrations, value, observers, inbox,
                   activations, service>>

\* the streams subscribed to: every change, and the changes of 'tablet.landscape'
SharedStreams == {ObserveStream(UNDEFINED), ObserveStream("tablet.landscape")}

\* a Monitor over tablet, tablet.landscape and web, in a window where each of
\* their queries matches or not
InitShared ==
    /\ Init
    /\ breakpoints = RegShared
    /\ \A q \in Queries \ AdapterQueries : ~media[q]

NextShared ==
    \/ \E sub \in Subscribers, stream \in SharedStreams : Subscribe(sub, stream)
    \/ \E sub \in Subscribers : Unsubscribe(sub)
    \/ \E q \in AdapterQueries : Transition(q)
    \/ \E policy \in BOOLEAN : SetEnableAsync(policy)
    \/ TimerFire
    \/ NewTick

SpecShared == InitShared /\ [][NextShared]_vars

(***************************************************************************)
(* The breakpoint factories, called by themselves.                         *)
(***************************************************************************)
\* the program's variables other than the answer of the last call
program ==
    <<breakpoints, enableAsync, activated, deactivated, debouncing, timers,
      media, canListen, registry, listeners, notified, source, received, lastFlush,
      flushes, schedules, tickIn, tickClosed, delivered, built, registrations,
      value, observers, inbox, activations, service>>

\* the aliases of the breakpoints the callers pass: one of the defaults', and
\* new ones with each of the delimiters
InputAliases ==
    { <<"x", "s">>,
      <<"g", "t", ".", "x", "s">>,
      <<"l", "t", "-", "a", "b">>,
      <<"g", "t", "_", "m", "d">> }

\* the suffixes they are written with: none, or one of their own
InputSuffixes == {NoSuffix, <<"O", "w", "n">>}

\* the breakpoints a caller passes in the list whose entries have this query
InputBreakPoints(mediaQuery) ==
    {BreakPoint(alias, mediaQuery, FALSE, suffix) :
         alias \in InputAliases, suffix \in InputSuffixes}

RECURSIVE ListsUpTo(_, _)
ListsUpTo(items, n) ==
    IF n = 0 THEN {<<>>}
    ELSE LET shorter == ListsUpTo(items, n - 1)
         IN  shorter \cup {Append(list, bp) : list \in shorter, bp \in items}

\* the alias is the key of a breakpoint: no list has two of one alias
UniqueAliases(list) ==
    \A i, j \in 1..Len(list) : list[i].alias = list[j].alias => i = j

\* the lists a caller passes: `defaults` with one query, `custom` with another
InputLists(mediaQuery) ==
    {list \in ListsUpTo(InputBreakPoints(mediaQuery), MaxList) :
         UniqueAliases(list)}

\* the call returned: nothing was thrown
NoError == "none"

\* the one exception class the build of a list has
ConfigurationError == "ConfigurationError"

\* the aliases a call requires of the list it builds.  Every call passes its
\* lists and nothing else, mergeByAlias(defaults, _custom || []) and
\* validateSuffixes(defaults): none is required
NoRequiredAliases == {}

\* the outcome of building the list for a caller that requires these aliases:
\* the list, or ConfigurationError and no list when the list omits one of them
Build(list, required) ==
    IF required \subseteq Range(AliasesOf(list))
    THEN [result |-> list, thrown |-> NoError]
    ELSE [result |-> NULL, thrown |-> ConfigurationError]

\* the lists a caller holds and has not passed yet
Held(defaults, custom) ==
    [op |-> "held", defaults |-> defaults, custom |-> custom]

\* no Monitor is constructed; a caller holds two lists
InitBuild ==
    /\ breakpoints = RegSmGtSm
    /\ enableAsync = FALSE
    /\ media = [q \in Queries |-> FALSE]
    /\ canListen = TRUE
    /\ activated = NewState.activated
    /\ deactivated = NewState.deactivated
    /\ debouncing = NewState.debouncing
    /\ timers = NewState.timers
    /\ registry = NewState.registry
    /\ listeners = NewState.listeners
    /\ notified = <<>>
    /\ source = <<>>
    /\ received = <<>>
    /\ lastFlush = NoFlush
    /\ flushes = 0
    /\ schedules = 0
    /\ tickIn = <<>>
    /\ tickClosed = FALSE
    /\ delivered = <<>>
    /\ built = <<>>
    /\ registrations = <<>>
    /\ value = NewState.value
    /\ observers = NewState.observers
    /\ inbox = NewState.inbox
    /\ activations = NewState.activations
    /\ service = NewService
    /\ asked \in {Held(defaults, custom) :
                      defaults \in InputLists("default"),
                      custom \in InputLists("custom")}

\* the caller calls mergeByAlias(defaults, custom)
CallMergeByAlias ==
    /\ asked.op = "held"
    /\ LET outcome == Build(MergeByAlias(asked.defaults, asked.custom),
                            NoRequiredAliases)
       IN  asked' = [op |-> "mergeByAlias", defaults |-> asked.defaults,
                     custom |-> asked.custom,
                     result |-> outcome.result,
                     thrown |-> outcome.thrown]
    /\ UNCHANGED program

\* the caller calls validateSuffixes(defaults)
CallValidateSuffixes ==
    /\ asked.op = "held"
    /\ LET outcome == Build(ValidateSuffixes(asked.defaults),
                            NoRequiredAliases)
       IN  asked' = [op |-> "validateSuffixes", list |-> asked.defaults,
                     result |-> outcome.result,
                     thrown |-> outcome.thrown]
    /\ UNCHANGED program

\* the injector calls the factory of provideCustomBreakPoints(custom)
CallProvideCustomBreakPoints ==
    /\ asked.op = "held"
    /\ LET outcome == Build(MergedBreakPointFactory(asked.custom),
                            NoRequiredAliases)
       IN  asked' = [op |-> "provideCustomBreakPoints",
                     custom |-> asked.custom,
                     result |-> outcome.result,
                     thrown |-> outcome.thrown]
    /\ UNCHANGED program

\* the injector calls the factory of ExtendedBreakPointsProvider
CallMergedDefaults ==
    /\ asked.op = "held"
    /\ LET outcome == Build(MergedDefaults, NoRequiredAliases)
       IN  asked' = [op |-> "_mergedDefaults",
                     result |-> outcome.result,
                     thrown |-> outcome.thrown]
    /\ UNCHANGED program

\* the injector calls the factory of BreakPointsProvider
CallBuildValidatedList ==
    /\ asked.op = "held"
    /\ LET outcome == Build(BuildValidatedList, NoRequiredAliases)
       IN  asked' = [op |-> "buildValidatedList",
                     result |-> outcome.result,
                     thrown |-> outcome.thrown]
    /\ UNCHANGED program

NextBuild ==
    \/ CallMergeByAlias
    \/ CallValidateSuffixes
    \/ CallProvideCustomBreakPoints
    \/ CallMergedDefaults
    \/ CallBuildValidatedList

SpecBuild == InitBuild /\ [][NextBuild]_vars

(***************************************************************************)
(* MockMatchMedia: a MatchMedia whose queries the test activates.          *)
(***************************************************************************)
\* the queries the tests register listeners for and activate
MockQueries == {"Q1", "Q2", CustomQuery}

\* the callback the mock registers a query with that nobody registered
MockOnChange == "matchMedia.onChange"

\* the queries that are active in the mock
ActiveQueries == {q \in Queries : media[q]}

\* an activate that leaves the active queries as they are
DeactivateNone(active, s) == s

\* the active queries are de-activated: each MediaQueryList fires its listeners
RECURSIVE DeactivateAll(_, _)
DeactivateAll(active, s) ==
    IF active = {} THEN s
    ELSE LET q == CHOOSE q \in active : TRUE
         IN  DeactivateAll(active \ {q}, Dispatch(q, FALSE, s))

\* MockMatchMedia.activate of a query that is not active: what was active is
\* de-activated, the query is registered if it was not, and its MediaQueryList
\* fires its listeners
ActivateQuery(mediaQuery, s) ==
    LET cleared == DeactivateAll(ActiveQueries, s)
        known == IF mediaQuery \in cleared.registry THEN cleared
                 ELSE RegisterQuery(mediaQuery, MockOnChange, cleared)
    IN  Dispatch(mediaQuery, TRUE, known)

\* a test calls matchMedia.activate(mediaQuery); the call returns whether a
\* query changed state
MockActivate(mediaQuery) ==
    /\ Len(activations) < MaxActivations
    /\ IF media[mediaQuery]
       THEN /\ media' = media
            /\ SetState([State EXCEPT !.activations = Append(@, mediaQuery)])
       ELSE /\ media' = [q \in Queries |-> q = mediaQuery]
            /\ SetState([ActivateQuery(mediaQuery, State)
                            EXCEPT !.activations = Append(@, mediaQuery)])
    /\ asked' = [op |-> "activate", mediaQuery |-> mediaQuery,
                 result |-> ~media[mediaQuery]]
    /\ UNCHANGED <<breakpoints, canListen, enableAsync, tickClosed>>

\* new MockMatchMedia(): no query is active
InitMock ==
    /\ InitMatchMedia
    /\ canListen
    /\ \A q \in Queries : ~media[q]

\* a test registers its listeners, then activates queries
NextMock ==
    \/ \E q \in MockQueries, cb \in Listeners :
           activations = <<>> /\ Register(q, cb)
    \/ \E q \in MockQueries : MockActivate(q)

SpecMock == InitMock /\ [][NextMock]_vars

(***************************************************************************)
(* Properties of the ChangeQueue (checked under SpecQueue).                *)
(***************************************************************************)
Min(S) == CHOOSE x \in S : \A y \in S : x <= y

IsActivation(c) == c # NULL /\ c.matches

IsDeactivation(c) == c # NULL /\ ~c.matches

\* the registry indexes of the ranges some change of `act` activates
QueuedRanges(act) ==
    {i \in 1..Len(breakpoints) :
        \E k \in 1..Len(act) : act[k].mediaQuery = breakpoints[i].mediaQuery}

\* C1: in every flush each de-activation received for it is passed to the sink,
\* and no activation of the flush is passed before a de-activation of it.
C1_DeactivationsBeforeActivation ==
    LET calls == lastFlush.calls
        got == lastFlush.received
    IN  /\ \A k \in 1..Len(got) :
               ~got[k].matches => \E j \in 1..Len(calls) : calls[j] = got[k]
        /\ \A i, j \in 1..Len(calls) :
               IsActivation(calls[i]) /\ IsDeactivation(calls[j]) => j < i

\* a flush announced a de-activation of one query and then an activation of another
C1_Witness ==
    \E i, j \in 1..Len(lastFlush.calls) :
        /\ i < j
        /\ IsDeactivation(lastFlush.calls[i])
        /\ IsActivation(lastFlush.calls[j])
        /\ lastFlush.calls[i].mediaQuery # lastFlush.calls[j].mediaQuery

\* C2: a flush passes at most one activation to the sink, and when a received
\* activation is for a registered range it is the one of the range with the
\* lowest registry index among the ranges activated, whatever the arrival order.
C2_OneActivationByRegistryOrder ==
    LET acts == Activations(lastFlush.calls)
        idx == QueuedRanges(Activations(lastFlush.received))
    IN  /\ Len(acts) <= 1
        /\ idx # {} =>
               /\ Len(acts) = 1
               /\ acts[1].mediaQuery = breakpoints[Min(idx)].mediaQuery

\* activations arrived for the fourth range and then the second: the second's is announced
C2_Witness ==
    /\ breakpoints = RegFour
    /\ lastFlush.received = <<MediaChange(TRUE, "Q4"), MediaChange(TRUE, "Q2")>>
    /\ Activations(lastFlush.calls) = <<MediaChange(TRUE, "Q2")>>

\* C3: every de-activation received is passed to the sink exactly once, in the
\* order received and unfiltered: each flush announces exactly the ones received
\* for it, and over a tick the announced ones followed by the buffered ones are
\* the ones received.
C3_EveryDeactivationInOrder ==
    /\ Deactivations(lastFlush.calls) = Deactivations(lastFlush.received)
    /\ Deactivations(notified) \o deactivated = Deactivations(tickIn)

\* one flush announced two de-activations, the first of a query of no range
C3_Witness ==
    /\ Len(Deactivations(lastFlush.calls)) >= 2
    /\ lastFlush.calls[1] = MediaChange(FALSE, CustomQuery)
    /\ lastFlush.calls[2].mediaQuery \in RegisteredQueries

\* C4: with enableAsync, however many raw changes arrive before the scheduled
\* processQueue runs, setTimeout is called once, and that one run processes
\* every one of them.
C4_OneFlushPerBurst ==
    enableAsync =>
        /\ schedules <= 1
        /\ timers <= 1
        /\ tickIn # <<>> => schedules = 1
        /\ timers = 1 =>
               /\ activated = Activations(tickIn)
               /\ deactivated = Deactivations(tickIn)
        /\ tickClosed =>
               /\ flushes = 1
               /\ lastFlush.received = tickIn
               /\ lastFlush.activated = Activations(tickIn)
               /\ lastFlush.deactivated = Deactivations(tickIn)

\* a deferred flush has processed a burst of three raw changes
C4_Witness ==
    /\ enableAsync
    /\ tickClosed
    /\ Len(tickIn) >= 3
    /\ Len(lastFlush.received) >= 3

\* C7, as claimed: a flush that received no activation of a registered range calls
\* the sink for its de-activations only, and never with null.
C7_SinkNeverCalledWithNull ==
    QueuedRanges(Activations(lastFlush.received)) = {} =>
        lastFlush.calls = Deactivations(lastFlush.received)

\* C7, amended: such a flush calls the sink once more after its de-activations,
\* with null, and _next drops that call: what is published is the de-activations
\* alone, and no null is ever published.
C7_NullCallNotPublished ==
    /\ \A i \in 1..Len(source) : source[i] # NULL
    /\ (lastFlush.received # <<>>
        /\ QueuedRanges(Activations(lastFlush.received)) = {}) =>
           /\ lastFlush.calls = Deactivations(lastFlush.received) \o <<NULL>>
           /\ lastFlush.published = Deactivations(lastFlush.received)

\* a flush with an empty activated buffer made its null call and published none of it
C7_Witness ==
    /\ lastFlush.activated = <<>>
    /\ Len(lastFlush.calls) >= 2
    /\ lastFlush.calls[Len(lastFlush.calls)] = NULL
    /\ Len(lastFlush.published) = Len(lastFlush.calls) - 1

\* C8, as claimed (for the queries of registered ranges): when a flush received a
\* de-activation and an activation of one query, both are passed to the sink,
\* the de-activation first.
C8_BothEmitted ==
    \A q \in RegisteredQueries :
        (/\ MediaChange(FALSE, q) \in Range(lastFlush.received)
         /\ MediaChange(TRUE, q) \in Range(lastFlush.received)) =>
            \E i, j \in 1..Len(lastFlush.calls) :
                /\ i < j
                /\ lastFlush.calls[i] = MediaChange(FALSE, q)
                /\ lastFlush.calls[j] = MediaChange(TRUE, q)

\* C8, amended: the de-activation is passed to the sink whatever else was
\* received; the activation is passed, after it, exactly when its query is that
\* of the lowest-index registered range among the activations received.
C8_NoCancellation ==
    \A q \in Queries :
        (/\ MediaChange(FALSE, q) \in Range(lastFlush.received)
         /\ MediaChange(TRUE, q) \in Range(lastFlush.received)) =>
            LET calls == lastFlush.calls
                idx == QueuedRanges(Activations(lastFlush.received))
            IN  /\ \E i \in 1..Len(calls) : calls[i] = MediaChange(FALSE, q)
                /\ (\E j \in 1..Len(calls) : calls[j] = MediaChange(TRUE, q))
                       <=> (idx # {} /\ breakpoints[Min(idx)].mediaQuery = q)
                /\ \A i, j \in 1..Len(calls) :
                       (/\ calls[i] = MediaChange(FALSE, q)
                        /\ calls[j] = MediaChange(TRUE, q)) => i < j

\* a flush received an activation and then a de-activation of one query and
\* announced both, the de-activation first
C8_Witness ==
    \E q \in RegisteredQueries :
        /\ lastFlush.received = <<MediaChange(TRUE, q), MediaChange(FALSE, q)>>
        /\ lastFlush.calls = <<MediaChange(FALSE, q), MediaChange(TRUE, q)>>

\* what C9 says of every state: at most one processQueue is pending, it is
\* pending exactly while the flag is set, each setTimeout of the tick has run or
\* is pending, and with none pending both buffers are empty
C9_FlushState ==
    /\ timers <= 1
    /\ debouncing <=> timers = 1
    /\ enableAsync => flushes + timers = schedules
    /\ timers = 0 => activated = <<>> /\ deactivated = <<>>

\* C9: every scheduled processQueue runs, once; when it has run both buffers are
\* empty and the flag is clear, so that the next raw change schedules a new one.
C9_ScheduledFlushRunsOnce ==
    /\ []C9_FlushState
    /\ (timers = 1) ~> (timers = 0 /\ flushes = 1 /\ ~debouncing)
    /\ [][(enableAsync /\ timers = 0 /\ tickIn' # <<>> /\ tickIn' # tickIn)
              => (timers' = 1 /\ schedules' = schedules + 1)]_vars

\* a burst of two or more raw changes was scheduled once, and its processQueue
\* has run and left the buffers empty and the flag clear
C9_Witness ==
    /\ enableAsync
    /\ tickClosed
    /\ Len(tickIn) >= 2
    /\ schedules = 1
    /\ flushes = 1
    /\ timers = 0
    /\ ~debouncing
    /\ activated = <<>>
    /\ deactivated = <<>>

\* C10, as claimed: an activation received for a query of no registered range is
\* published to the subscribers, with empty alias and suffix.
C10_CustomActivationForwarded ==
    \A k \in 1..Len(lastFlush.received) :
        LET c == lastFlush.received[k]
        IN  (c.matches /\ c.mediaQuery \notin RegisteredQueries) =>
                \E j \in 1..Len(lastFlush.published) :
                    lastFlush.published[j]
                        = [matches |-> TRUE, mediaQuery |-> c.mediaQuery,
                           mqAlias |-> "", suffix |-> ""]

(***************************************************************************)
(* Properties of the MediaMonitor as constructed (checked under Spec).     *)
(***************************************************************************)
\* what a subscriber reads of a change: whether it matches, its query, its alias
RECURSIVE Brief(_)
Brief(changes) ==
    IF changes = <<>> THEN <<>>
    ELSE << <<Head(changes).matches, Head(changes).mediaQuery,
              Head(changes).mqAlias>> >> \o Brief(Tail(changes))

\* C5, as claimed: the queue of a MediaMonitor built by its constructor defers
\* its flush, so that the raw changes of one synchronous burst are processed by
\* one processQueue, which publishes at most one activation.
C5_DefaultPolicyCoalesces ==
    Cardinality({c.mediaQuery : c \in Range(Activations(tickIn))}) >= 2 =>
        /\ enableAsync
        /\ flushes <= 1
        /\ Len(Activations(source)) <= 1

\* C6, as claimed: with the registry [sm: Q1, gt-sm: Q2], Q1 and then Q2 turning
\* true in one tick gives the subscribers of observe() one activation, of alias
\* 'sm'; Q1 turning false and Q2 true in one tick gives them the de-activation
\* of 'sm' and then the activation of 'gt-sm'.
C6_SmGtSmScenario ==
    breakpoints = RegSmGtSm =>
        /\ tickIn = <<MediaChange(TRUE, "Q1"), MediaChange(TRUE, "Q2")>> =>
               Brief(Observe(UNDEFINED, source)) = << <<TRUE, "Q1", "sm">> >>
        /\ tickIn = <<MediaChange(FALSE, "Q1"), MediaChange(TRUE, "Q2")>> =>
               Brief(Observe(UNDEFINED, source))
                   = << <<FALSE, "Q1", "sm">>, <<TRUE, "Q2", "gt-sm">> >>

(***************************************************************************)
(* Properties of MatchMedia (checked under SpecMatchMedia).                *)
(***************************************************************************)
Count(seq, x) == Len(SelectSeq(seq, LAMBDA y : y = x))

\* the non-empty query strings registerQuery was called with
RegisteredStrings ==
    {registrations[i][1] : i \in 1..Len(registrations)} \ {EmptyQuery}

\* the calls one firing makes: one of each callback, in order, with the change
RECURSIVE Fanout(_, _)
Fanout(callbacks, change) ==
    IF callbacks = <<>> THEN <<>>
    ELSE <<[listener |-> Head(callbacks), change |-> change]>>
             \o Fanout(Tail(callbacks), change)

\* C11: after any calls of registerQuery the _registry holds the non-empty
\* query strings registered, and exactly one MediaQueryList was built for each
\* of them, however many listeners were registered for it.
C11_OneQueryListPerQuery ==
    /\ registry = RegisteredStrings
    /\ \A q \in Queries \cup {EmptyQuery} :
           Count(built, q) = IF q \in RegisteredStrings THEN 1 ELSE 0

\* two listeners were registered for one query and one for another: two
\* MediaQueryLists were built
C11_Witness ==
    /\ Len(listeners["Q1"]) = 2
    /\ Len(listeners["Q2"]) = 1
    /\ Len(built) = 2

\* the callbacks registerQuery was called with for the query, in order
RECURSIVE CallbacksOf(_, _)
CallbacksOf(q, regs) ==
    IF regs = <<>> THEN <<>>
    ELSE (IF Head(regs)[1] = q THEN <<Head(regs)[2]>> ELSE <<>>)
             \o CallbacksOf(q, Tail(regs))

\* C12: when the window's evaluation of a query changes, each listener
\* registered for that query is called once for each of its registrations, in
\* order, with a change of that query and the new value of matches, and no
\* other listener is called.  This is of a window whose MediaQueryLists take
\* listeners; in one whose lists do not, no listener is called.
C12_ListenersOfTheQueryOnly ==
    [][\A q \in Queries :
           media'[q] # media[q] =>
               delivered' = delivered
                   \o (IF canListen
                       THEN Fanout(CallbacksOf(q, registrations),
                                   MediaChange(media'[q], q))
                       ELSE <<>>)]_vars

\* with a listener on each of two queries, the first query was de-activated:
\* its listener was called and the other was not
C12_Witness ==
    /\ listeners["Q1"] = <<"L1">>
    /\ listeners["Q2"] = <<"L2">>
    /\ \E i \in 1..Len(delivered) :
           delivered[i] = [listener |-> "L1", change |-> MediaChange(FALSE, "Q1")]
    /\ \A i \in 1..Len(delivered) : delivered[i].listener = "L1"

\* C13: the step that registers a listener for a query changes nothing of the
\* window, and calls the new listener, once, with the activation of the query
\* when the query matches, and calls nothing when it does not.  This is of a
\* window whose MediaQueryLists take listeners; in one whose lists do not, the
\* query never matches for MatchMedia and nothing is called.
C13_ActivationOnRegistration ==
    [][\A q \in Queries :
           (/\ Len(registrations') = Len(registrations) + 1
            /\ registrations'[Len(registrations')][1] = q) =>
               /\ media' = media
               /\ delivered' =
                      IF canListen /\ media[q]
                      THEN Append(delivered,
                               [listener |-> registrations'[Len(registrations')][2],
                                change |-> MediaChange(TRUE, q)])
                      ELSE delivered]_vars

\* a second listener was registered for a query that matches, after the first
\* one: it alone was called, with the activation
C13_Witness ==
    /\ media["Q1"]
    /\ listeners["Q1"] = <<"L1", "L2">>
    /\ delivered = <<[listener |-> "L2", change |-> MediaChange(TRUE, "Q1")]>>

\* what C14 says of every state: the empty query has no entry, no
\* MediaQueryList, no listener and no notification, and is not active
C14_NothingOfTheEmptyQuery ==
    /\ EmptyQuery \notin registry
    /\ Count(built, EmptyQuery) = 0
    /\ listeners[EmptyQuery] = <<>>
    /\ \A i \in 1..Len(delivered) : delivered[i].change.mediaQuery # EmptyQuery
    /\ ~IsActive(EmptyQuery, State)

\* C14: a registerQuery with the empty query string leaves the _registry, the
\* listeners and the MediaQueryLists as they were and calls no listener, and
\* isActive of the empty query is false.
C14_EmptyQueryInert ==
    /\ []C14_NothingOfTheEmptyQuery
    /\ [][(/\ Len(registrations') = Len(registrations) + 1
            /\ registrations'[Len(registrations')][1] = EmptyQuery)
              => UNCHANGED <<registry, built, listeners, delivered, media>>]_vars

\* the empty query was registered between the registrations of two others
C14_Witness ==
    /\ Len(registrations) = 3
    /\ registrations[2][1] = EmptyQuery
    /\ Len(built) = 2

(***************************************************************************)
(* Properties of the Monitor's and the Facade's queries (checked under     *)
(* Spec).                                                                  *)
(***************************************************************************)
\* the query an alias-or-query resolves to: that of the first range with the
\* alias, else the string itself
ResolvedQuery(x) ==
    LET idx == {i \in 1..Len(breakpoints) : breakpoints[i].alias = x}
    IN  IF idx # {} THEN breakpoints[Min(idx)].mediaQuery ELSE x

\* what MatchMedia can read of a query: the window's evaluation in a window
\* whose MediaQueryLists take listeners, and false in one whose lists do not
Truth(q) == canListen /\ media[q]

\* the registry indexes of the ranges whose query matches now
TrueRanges ==
    {i \in 1..Len(breakpoints) : Truth(breakpoints[i].mediaQuery)}

\* what C15 says of an answer: it is the evaluation of the resolved query that
\* MatchMedia reads when a range has that query, and false when none has
C15_AnswerIsTruthOfResolvedQuery ==
    asked.op = "isActive" =>
        LET q == ResolvedQuery(asked.alias)
            truth == IF q \in RegisteredQueries THEN Truth(q) ELSE FALSE
        IN  /\ asked.monitor = truth
            /\ asked.service = truth

\* C15: isActive(x) of the Monitor and of the Facade answers with the current
\* evaluation of the query x resolves to (as an alias, else as a query, else
\* literally), answers false when no range has that query, and changes no
\* state of MatchMedia, of the queue or of the registry.
C15_IsActiveResolvesAndReads ==
    /\ []C15_AnswerIsTruthOfResolvedQuery
    /\ [][(asked' # asked /\ asked'.op = "isActive") =>
              UNCHANGED <<breakpoints, media, registry, listeners, built,
                          registrations, activated, deactivated, debouncing,
                          timers, notified, source>>]_vars

\* 'sm' was asked of the four-range registry while its query Q3 matched and Q1,
\* the query 'sm' has in another registry, did not: the answer was true
C15_Witness ==
    /\ canListen
    /\ breakpoints = RegFour
    /\ asked.op = "isActive"
    /\ asked.alias = "sm"
    /\ ~media["Q1"]
    /\ asked.monitor
    /\ asked.service

\* C16, as claimed: active is the true non-overlapping range of the lowest
\* registry index when there is one, is none when no range is true, and is
\* never an overlapping range while a non-overlapping one is true.
C16_ActiveIsFirstNonOverlapping ==
    asked.op = "active" =>
        LET nonOverlapping == {i \in TrueRanges : ~breakpoints[i].overlapping}
        IN  /\ nonOverlapping # {} =>
                   asked.result = breakpoints[Min(nonOverlapping)]
            /\ TrueRanges = {} => asked.result = NULL
            /\ (asked.result # NULL /\ asked.result.overlapping) =>
                   nonOverlapping = {}

\* C17, as claimed: activeOverlaps is the true overlapping ranges in registry
\* order, lowest index first.
C17_OverlapsInRegistryOrder ==
    asked.op = "activeOverlaps" =>
        asked.result = SelectSeq(breakpoints, LAMBDA bp :
                           bp.overlapping /\ Truth(bp.mediaQuery))

\* C17, amended: activeOverlaps is exactly the true overlapping ranges, in
\* reverse registry order, highest index first.
C17_OverlapsInReverseOrder ==
    asked.op = "activeOverlaps" =>
        LET idx == {i \in TrueRanges : breakpoints[i].overlapping}
        IN  /\ Len(asked.result) = Cardinality(idx)
            /\ \A k \in 1..Len(asked.result) :
                   \E i \in idx :
                       /\ asked.result[k] = breakpoints[i]
                       /\ Cardinality({j \in idx : j > i}) = k - 1

\* activeOverlaps was read while two overlapping ranges were true
C17_Witness ==
    /\ asked.op = "activeOverlaps"
    /\ Len(asked.result) = 2
    /\ asked.result[1].alias = "gt-sm"
    /\ asked.result[2].alias = "gt-xs"

\* the arguments observe is called with: aliases, a query of a range, a custom query
ObserveArgs == {"sm", "tablet.landscape", "Q2", CustomQuery}

\* what a subscriber reads of a change apart from its alias
RECURSIVE Raw(_)
Raw(changes) ==
    IF changes = <<>> THEN <<>>
    ELSE << <<Head(changes).matches, Head(changes).mediaQuery>> >>
             \o Raw(Tail(changes))

\* C18: observe(x) delivers the events of the query x resolves to and no
\* others; observe() delivers every event the queue emits, activations and
\* de-activations, in order.
C18_ObserveFiltersByQuery ==
    /\ \A x \in ObserveArgs :
           LET out == Observe(x, source)
               q == ResolvedQuery(x)
           IN  /\ \A i \in 1..Len(out) : out[i].mediaQuery = q
               /\ Raw(out) = Raw(SelectSeq(source, LAMBDA c : c.mediaQuery = q))
    /\ Raw(Observe(UNDEFINED, source))
           = Raw(SelectSeq(notified, LAMBDA c : c # NULL))

\* the queue emitted events of two queries, a de-activation among them, and
\* observe('Q2') delivered some of them and not all
C18_Witness ==
    /\ Len(Observe("Q2", source)) >= 1
    /\ Len(Observe("Q2", source)) < Len(source)
    /\ \E i \in 1..Len(source) : ~source[i].matches
    /\ Len(Observe(UNDEFINED, source)) = Len(source)

\* the alias and suffix of an event are those of a range that has its query,
\* and are empty when no range has it
CarriesAliasOfItsQuery(e) ==
    LET idx == {i \in 1..Len(breakpoints) :
                   breakpoints[i].mediaQuery = e.mediaQuery}
    IN  IF idx = {} THEN e.mqAlias = "" /\ e.suffix = ""
        ELSE \E i \in idx : /\ e.mqAlias = breakpoints[i].alias
                             /\ e.suffix = breakpoints[i].suffix

\* C19, as claimed: every event observe delivers, with an argument or without,
\* and every event the Facade delivers carries the alias and suffix of the
\* range of its query.
C19_EventsCarryAlias ==
    /\ \A x \in ObserveArgs \cup {UNDEFINED} :
           \A e \in Range(Observe(x, source)) : CarriesAliasOfItsQuery(e)
    /\ \A e \in Range(BuildObservable(service.source)) :
           CarriesAliasOfItsQuery(e)

\* C20, as claimed: the stream of observe(alias) holds activations only.
C20_OnlyActivationsOfAlias ==
    \A x \in ObserveArgs :
        \A e \in Range(Observe(x, source)) : e.matches = TRUE

\* C21: whatever raw changes reach the Facade's queue in a tick, activations
\* and de-activations mixed, the Facade's stream holds no de-activation and
\* holds the activations among them, in the order they arrived.
C21_FacadeDeliversActivationsOnly ==
    LET out == BuildObservable(service.source)
    IN  /\ \A i \in 1..Len(out) : out[i].matches = TRUE
        /\ Raw(out) = Raw(Activations(service.tickIn))

\* a tick held an activation, a de-activation and another activation: the
\* Facade's stream holds the two activations
C21_Witness ==
    /\ Len(service.tickIn) = 3
    /\ service.tickIn[1].matches
    /\ ~service.tickIn[2].matches
    /\ service.tickIn[3].matches
    /\ service.tickIn[1].mediaQuery # service.tickIn[3].mediaQuery
    /\ Len(BuildObservable(service.source)) = 2


(***************************************************************************)
(* Properties of the streams' subscribers (checked under SpecStream).      *)
(***************************************************************************)
\* whether the stream's operators let a change through
Passes(stream, change) ==
    IF stream.stream = "media" THEN change.matches = TRUE
    ELSE stream.alias = UNDEFINED
             \/ change.mediaQuery = ResolvedQuery(stream.alias)

\* the changes the step added to what the stream's subject emitted in this tick
EmittedOn(stream) ==
    LET before == IF OwnerOf(stream) = "MediaService"
                  THEN service.source ELSE source
        after == IF OwnerOf(stream) = "MediaService"
                 THEN service'.source ELSE source'
    IN  IF Len(after) > Len(before)
        THEN SubSeq(after, Len(before) + 1, Len(after)) ELSE <<>>

\* the current value of the stream's subject
ValueOn(stream) ==
    IF OwnerOf(stream) = "MediaService" THEN service.value ELSE value

\* what the stream's subject emitted in this tick
SourceOn(stream) ==
    IF OwnerOf(stream) = "MediaService" THEN service.source ELSE source

\* the subscriber is given the changes in a step that starts no new tick
GivenInStep(sub, changes) == Raw(inbox'[sub]) = Raw(inbox[sub]) \o Raw(changes)

\* C22: a subscriber that has unsubscribed is given nothing more; its
\* unsubscribing leaves MatchMedia's listeners and registry, the queue's
\* buffers, the subject and the other subscribers as they were; and a
\* subscriber that stays is given every later change its stream lets through.
C22_UnsubscribeStopsOnlyThatSubscriber ==
    [][\A sub \in Subscribers :
          /\ (observers[sub] = NoStream /\ observers'[sub] = NoStream)
                 => inbox'[sub] \in {inbox[sub], <<>>}
          /\ (observers[sub] # NoStream /\ observers'[sub] = NoStream)
                 => /\ UNCHANGED <<activated, deactivated, debouncing, timers,
                                   registry, listeners, built, source, value,
                                   media, breakpoints, inbox, service>>
                    /\ \A other \in Subscribers \ {sub} :
                           observers'[other] = observers[other]
          /\ (observers[sub] # NoStream /\ observers'[sub] = observers[sub]
                  /\ EmittedOn(observers[sub]) # <<>>)
                 => GivenInStep(sub, SelectSeq(EmittedOn(observers[sub]),
                                    LAMBDA c : Passes(observers[sub], c)))
      ]_vars

C22_Witness ==
    /\ observers["A"] = NoStream
    /\ observers["B"] = ObserveStream(UNDEFINED)
    /\ Len(source) = 2
    /\ Raw(inbox["A"]) = Raw(<<source[1]>>)
    /\ Raw(inbox["B"]) = Raw(source)

\* the step in which the subscriber subscribes
Subscribes(sub) == observers[sub] = NoStream /\ observers'[sub] # NoStream

\* C23 (as the code has it): on subscribing, a subscriber is given the
\* subject's current value, the change published last (the initial
\* MediaChange(true) when none was), if its stream lets that change through;
\* from then on it is given exactly the changes emitted, in emission order.
C23_SubscriberGetsCurrentValueThenLaterEvents ==
    [][\A sub \in Subscribers :
          /\ Subscribes(sub)
                 => GivenInStep(sub, SelectSeq(<<ValueOn(observers'[sub])>>,
                                    LAMBDA c : Passes(observers'[sub], c)))
          /\ (observers[sub] # NoStream /\ observers'[sub] = observers[sub])
                 => GivenInStep(sub, SelectSeq(EmittedOn(observers[sub]),
                                    LAMBDA c : Passes(observers[sub], c)))
                        \/ inbox'[sub] = <<>>
      ]_vars

\* C23 as stated: nothing published before the subscription is given to the
\* subscriber
C23_NothingReplayed ==
    [][\A sub \in Subscribers : Subscribes(sub) => inbox'[sub] = inbox[sub]]_vars

C23_Witness ==
    /\ observers["A"] = MediaStream
    /\ observers["B"] = NoStream
    /\ Len(service.source) = 1
    /\ service.source[1].matches
    /\ Len(inbox["A"]) = 2
    /\ inbox["A"][1].mediaQuery # service.source[1].mediaQuery
    /\ Raw(<<inbox["A"][2]>>) = Raw(service.source)

\* C29: nothing a subscriber is given, on subscribing or later, is null,
\* whatever the flushes resolved.
C29_NoNullToSubscribers ==
    /\ value # NULL
    /\ service.value # NULL
    /\ \A sub \in Subscribers :
           \A i \in 1..Len(inbox[sub]) : inbox[sub][i] # NULL

C29_Witness ==
    /\ lastFlush # NoFlush
    /\ lastFlush.calls # <<>>
    /\ lastFlush.calls[Len(lastFlush.calls)] = NULL
    /\ observers["A"] = ObserveStream(UNDEFINED)
    /\ inbox["A"] # <<>>
    /\ ~inbox["A"][Len(inbox["A"])].matches

(***************************************************************************)
(* Properties of the breakpoint tools (checked under SpecBuild).           *)
(***************************************************************************)
\* the suffixes the tests expect of the aliases the callers pass
ExpectedSuffix(alias) ==
    IF alias = <<"x", "s">> THEN <<"X", "s">>
    ELSE IF alias = <<"g", "t", ".", "x", "s">> THEN <<"G", "t", "X", "s">>
    ELSE IF alias = <<"l", "t", "-", "a", "b">> THEN <<"L", "t", "A", "b">>
    ELSE <<"G", "t", "M", "d">>

\* what a breakpoint of `list` is once its suffix is validated
Validated(bp) ==
    IF bp.suffix # NoSuffix THEN bp
    ELSE [bp EXCEPT !.suffix = ExpectedSuffix(bp.alias)]

\* the aliases that occur in the list
AliasSet(list) == {list[i].alias : i \in 1..Len(list)}

\* C24: mergeByAlias(D, C) has one entry for each alias of D or C and no other,
\* and the entry of an alias of both is C's entry (with its suffix validated).
C24_MergeOnePerAliasCustomWins ==
    asked.op = "mergeByAlias" =>
        LET result == asked.result
            custom == asked.custom
        IN  /\ UniqueAliases(result)
            /\ AliasSet(result) = AliasSet(asked.defaults) \cup AliasSet(custom)
            /\ \A i \in 1..Len(result), j \in 1..Len(custom) :
                   result[i].alias = custom[j].alias
                       => result[i] = Validated(custom[j])

C24_Witness ==
    /\ asked.op = "mergeByAlias"
    /\ Len(asked.defaults) = 2
    /\ Len(asked.custom) = 2
    /\ Len(asked.result) = 3
    /\ asked.result[2].mediaQuery = "custom"
    /\ asked.defaults[2].suffix # NoSuffix
    /\ asked.result[2].suffix # asked.defaults[2].suffix

\* C25: mergeByAlias(D, C) lists the aliases of D in D's order, then the
\* aliases C adds in C's order; so the list of provideCustomBreakPoints(E),
\* E's aliases being new, is the custom and the default breakpoints followed
\* by E's.
C25_MergeKeepsOrder ==
    /\ asked.op = "mergeByAlias" =>
           AliasesOf(asked.result) =
               AliasesOf(asked.defaults)
                   \o AliasesOf(SelectSeq(asked.custom, LAMBDA bp :
                          bp.alias \notin AliasSet(asked.defaults)))
    /\ (/\ asked.op = "provideCustomBreakPoints"
        /\ AliasSet(asked.custom)
               \cap AliasSet(CUSTOM_BREAKPOINTS \o DEFAULT_BREAKPOINTS) = {})
           => /\ Len(asked.result) = Len(CUSTOM_BREAKPOINTS)
                     + Len(DEFAULT_BREAKPOINTS) + Len(asked.custom)
              /\ AliasesOf(asked.result) =
                     AliasesOf(CUSTOM_BREAKPOINTS)
                         \o AliasesOf(DEFAULT_BREAKPOINTS)
                         \o AliasesOf(asked.custom)

C25_Witness ==
    /\ asked.op = "mergeByAlias"
    /\ Len(asked.defaults) = 2
    /\ Len(asked.custom) = 2
    /\ asked.custom[1].alias \notin AliasSet(asked.defaults)
    /\ asked.custom[2].alias = asked.defaults[1].alias
    /\ AliasesOf(asked.result) =
           AliasesOf(asked.defaults) \o <<asked.custom[1].alias>>
    /\ asked.result[1].mediaQuery = "custom"

\* C26: validateSuffixes changes nothing when applied again; it leaves a
\* breakpoint that has a suffix as it is, and gives one that has none the
\* suffix of its alias, each segment capitalised and the delimiters dropped.
C26_ValidateSuffixesIdempotent ==
    /\ asked.op = "validateSuffixes" =>
           /\ ValidateSuffixes(asked.result) = asked.result
           /\ Len(asked.result) = Len(asked.list)
           /\ \A i \in 1..Len(asked.list) :
                  /\ asked.result[i].suffix # NoSuffix
                  /\ asked.result[i] = Validated(asked.list[i])
    /\ asked.op \in {"buildValidatedList", "_mergedDefaults"} =>
           /\ ValidateSuffixes(asked.result) = asked.result
           /\ \A i \in 1..Len(asked.result) :
                  asked.result[i].suffix # NoSuffix
           /\ asked.result[1].suffix = <<"X", "s">>
           /\ asked.result[2].suffix = <<"G", "t", "X", "s">>

C26_Witness ==
    /\ asked.op = "validateSuffixes"
    /\ Len(asked.list) = 2
    /\ asked.list[1].suffix = NoSuffix
    /\ asked.list[1].alias = <<"g", "t", "_", "m", "d">>
    /\ asked.list[2].suffix = <<"O", "w", "n">>
    /\ asked.result[1].suffix = <<"G", "t", "M", "d">>
    /\ asked.result[2].suffix = <<"O", "w", "n">>

\* the calls that build a list of breakpoints
BuildCalls ==
    {"mergeByAlias", "validateSuffixes", "provideCustomBreakPoints",
     "_mergedDefaults", "buildValidatedList"}

\* the aliases the responsive directives are written with
RequiredAliases == Range(RESPONSIVE_ALIASES)

\* the list holds every alias of RESPONSIVE_ALIASES
HasResponsiveAliases(list) == RequiredAliases \subseteq AliasSet(list)

\* the list the call arrives at from what it was given
MergedOf(call) ==
    CASE call.op = "mergeByAlias" -> MergeByAlias(call.defaults, call.custom)
      [] call.op = "validateSuffixes" -> ValidateSuffixes(call.list)
      [] call.op = "provideCustomBreakPoints" ->
             MergedBreakPointFactory(call.custom)
      [] call.op = "_mergedDefaults" -> MergedDefaults
      [] call.op = "buildValidatedList" -> BuildValidatedList

\* C27: a build whose list omits an alias of RESPONSIVE_ALIASES fails with
\* ConfigurationError and gives no list; a build whose list holds every one
\* of them gives that list.
C27_OmissionThrows ==
    asked.op \in BuildCalls =>
        LET stated == Build(MergedOf(asked), RequiredAliases)
        IN  /\ asked.thrown = stated.thrown
            /\ IF stated.thrown = ConfigurationError
               THEN asked.result = NULL
               ELSE asked.result = stated.result

\* mergeByAlias was called with no defaults and two custom breakpoints, as the
\* test 'should add custom breakpoints with empty defaults' calls it, and
\* returned the two entries although aliases of RESPONSIVE_ALIASES are missing
C27_Witness ==
    /\ asked.op = "mergeByAlias"
    /\ asked.defaults = <<>>
    /\ Len(asked.custom) = 2
    /\ asked.thrown = NoError
    /\ Len(asked.result) = 2
    /\ ~HasResponsiveAliases(asked.result)

(***************************************************************************)
(* Properties of MockMatchMedia (checked under SpecMock).                  *)
(***************************************************************************)
\* how many changes of this direction the listener was called with
Heard(listener, matches) ==
    Len(SelectSeq(delivered, LAMBDA d :
            d.listener = listener /\ d.change.matches = matches))

\* the calls of activate alternate between two queries
Alternates(a, b) ==
    /\ a # b
    /\ \A i \in 1..Len(activations) :
           activations[i] = (IF i % 2 = 1 THEN a ELSE b)

\* the calls that de-activate what is active: one of each of its listeners
RECURSIVE FanoutOfAll(_, _)
FanoutOfAll(active, matches) ==
    IF active = {} THEN <<>>
    ELSE LET q == CHOOSE q \in active : TRUE
         IN  Fanout(listeners[q], MediaChange(matches, q))
                 \o FanoutOfAll(active \ {q}, matches)

\* C28: after the calls of activate, the query of the last call is the only
\* active one; a call for a query that is not active returns true, calls each
\* listener of what was active once with its de-activation and each listener
\* of the query once with its activation; and a listener of both of two
\* queries activated in turn has heard, after n calls, n activations and n - 1
\* de-activations.
C28_ActivateIsExclusive ==
    /\ [](activations # <<>> =>
             LET last == activations[Len(activations)]
             IN  /\ ActiveQueries = {last}
                 /\ IsActive(last, State)
                 /\ \A q \in registry \ {last} : ~IsActive(q, State)
                 /\ \A listener \in Listeners, a, b \in MockQueries :
                        (/\ Alternates(a, b)
                         /\ Count(listeners[a], listener) = 1
                         /\ Count(listeners[b], listener) = 1)
                            => /\ Heard(listener, TRUE) = Len(activations)
                               /\ Heard(listener, FALSE) = Len(activations) - 1)
    /\ [][\A q \in MockQueries :
             (activations' = Append(activations, q) /\ ~media[q])
                 => /\ asked'.result = TRUE
                    /\ Cardinality(ActiveQueries) <= 1
                    /\ delivered' = delivered
                           \o FanoutOfAll(ActiveQueries, FALSE)
                           \o Fanout(listeners'[q], MediaChange(TRUE, q))
      ]_vars

C28_Witness ==
    /\ activations = <<"Q1", "Q2", "Q1">>
    /\ listeners["Q1"] = <<"L1">>
    /\ listeners["Q2"] = <<"L1">>
    /\ Heard("L1", TRUE) = 3
    /\ Heard("L1", FALSE) = 2
    /\ asked.result = TRUE

(***************************************************************************)
(* Properties of the re-entered ChangeQueue (checked under SpecReentrant). *)
(***************************************************************************)
\* C30, as claimed: when no flush is pending the buffers are empty, and each
\* raw change the last flush received, those the sink passed in during it
\* included, was called with if it is a de-activation, and was among the
\* activations the reduce chose from if it is an activation, or is still
\* buffered.
C30_ReentrantEventsNotLost ==
    (timers = 0 /\ ~debouncing) =>
        /\ activated = <<>>
        /\ deactivated = <<>>
        /\ \A i \in 1..Len(lastFlush.received) :
               LET c == lastFlush.received[i]
               IN  IF c.matches
                   THEN c \in Range(lastFlush.activated) \cup Range(activated)
                   ELSE c \in Range(lastFlush.calls) \cup Range(deactivated)

(***************************************************************************)
(* The two extended providers compared (checked under SpecBuild).          *)
(***************************************************************************)
\* C34 (as the code has it): the list of provideCustomBreakPoints with no
\* custom breakpoints holds the breakpoints of the list of
\* ExtendedBreakPointsProvider, in another order: the built-in custom ones
\* first, 'handset' at index 0, then the defaults, 'xl' last; the list of
\* ExtendedBreakPointsProvider has the defaults first, 'xs' at index 0, and
\* 'web.portrait' last.
C34_SameRangesCustomFirst ==
    /\ (asked.op = "provideCustomBreakPoints" /\ asked.custom = <<>>) =>
           /\ Range(asked.result) = Range(MergedDefaults)
           /\ Len(asked.result) = Len(MergedDefaults)
           /\ AliasesOf(asked.result) =
                  AliasesOf(CUSTOM_BREAKPOINTS) \o AliasesOf(DEFAULT_BREAKPOINTS)
           /\ asked.result[1].alias = <<"h", "a", "n", "d", "s", "e", "t">>
           /\ asked.result[Len(asked.result)].alias = <<"x", "l">>
    /\ asked.op = "_mergedDefaults" =>
           /\ AliasesOf(asked.result) =
                  AliasesOf(DEFAULT_BREAKPOINTS) \o AliasesOf(CUSTOM_BREAKPOINTS)
           /\ asked.result[1].alias = <<"x", "s">>
           /\ asked.result[Len(asked.result)].alias =
                  <<"w", "e", "b", ".", "p", "o", "r", "t", "r", "a", "i", "t">>

\* C34 as stated: the two lists are the same, in the same order
C34_SameRangesSameOrder ==
    (asked.op = "provideCustomBreakPoints" /\ asked.custom = <<>>) =>
        asked.result = MergedDefaults

C34_Witness ==
    /\ asked.op = "provideCustomBreakPoints"
    /\ asked.custom = <<>>
    /\ Len(asked.result) = 18
    /\ asked.result[1].alias # MergedDefaults[1].alias
    /\ asked.result[1].suffix = <<"H", "a", "n", "d", "s", "e", "t">>

(***************************************************************************)
(* Reads of the Monitor's getters.                                         *)
(***************************************************************************)
\* the getters whose reads C33 is about
MonitorReads == {"breakpoints", "active", "activeOverlaps"}

\* the queries in an order, to draw pairs from
QuerySeq == <<"Q1", "Q2", "Q3", "Q4", CustomQuery>>

\* the activations a flush may hold: none, one query's twice, or those of two
\* queries that follow each other in the order
QueuedActivations ==
    {<<>>} \cup UNION {
        {<<MediaChange(TRUE, QuerySeq[i]), MediaChange(TRUE, QuerySeq[j])>> :
            j \in {i, (i % Len(QuerySeq)) + 1}} : i \in 1..Len(QuerySeq)}

\* C33: a read of Monitor.breakpoints, Monitor.active or Monitor.activeOverlaps
\* leaves the registry's contents and order, and the rest of the program's
\* state, as they were; a read that follows a read of the same getter returns
\* the identical result; and the activation the queue would choose from any
\* queued activations is the same after the read.
C33_ReadsLeaveRegistry ==
    [][asked'.op \in MonitorReads =>
          /\ breakpoints' = breakpoints
          /\ program' = program
          /\ asked.op = asked'.op => asked'.result = asked.result
          /\ \A act \in QueuedActivations :
                 FindFirstActivation(breakpoints', act) =
                     FindFirstActivation(breakpoints, act)]_vars

\* monitor.active was read and returned the range of the highest index, and the
\* registry is still in its order
C33_Witness ==
    /\ asked.op = "active"
    /\ asked.result # NULL
    /\ breakpoints = RegFour
    /\ asked.result.alias = "gt-sm"
    /\ breakpoints[1].alias = "xs"

(***************************************************************************)
(* Ranges that share a query (checked under SpecShared).                   *)
(***************************************************************************)
\* how many callbacks of the queue the query's MediaQueryList holds
QueueListeners(q) == Count(listeners[q], QueueCallback)

\* the raw changes the flushes of the step processed: those waiting for the
\* flush and those the step received
FlushedInStep ==
    IF Len(tickIn') > Len(tickIn)
    THEN received \o SubSeq(tickIn', Len(tickIn) + 1, Len(tickIn'))
    ELSE received

\* how many transitions of the query to `matches` those raw changes are of:
\* a transition calls each of the queue's callbacks on the query once
TransitionsFlushed(q, matches) ==
    IF QueueListeners(q) = 0 THEN 0
    ELSE Count(Raw(FlushedInStep), <<matches, q>>) \div QueueListeners(q)

\* what the step gave the subscriber
GivenTo(sub) ==
    IF Len(inbox'[sub]) > Len(inbox[sub])
    THEN SubSeq(inbox'[sub], Len(inbox[sub]) + 1, Len(inbox'[sub])) ELSE <<>>

\* C31: with ranges that share a query, a subscriber of the Monitor is given
\* the notification of one transition of that query at most once, whether the
\* queue flushes synchronously or deferred: in every step the subscriber is
\* given no more changes of a query and direction than the transitions flushed.
C31_OneNotificationPerTransition ==
    [][\A sub \in Subscribers :
          (observers[sub] # NoStream /\ observers'[sub] = observers[sub])
              => \A q \in AdapterQueries, matches \in BOOLEAN :
                     Count(Raw(GivenTo(sub)), <<matches, q>>)
                         <= TransitionsFlushed(q, matches)]_vars

\* the part of C31 that holds: a deferred flush gives the subscriber at most
\* one activation, whatever the number of callbacks of the queue on the query
C31_DeferredActivationOnce ==
    [][\A sub \in Subscribers :
          (enableAsync /\ observers[sub] # NoStream
                       /\ observers'[sub] = observers[sub])
              => \A q \in AdapterQueries :
                     Count(Raw(GivenTo(sub)), <<TRUE, q>>)
                         <= TransitionsFlushed(q, TRUE)]_vars

\* the synchronous policy does not keep to C31
C31_SynchronousOnce ==
    [][\A sub \in Subscribers :
          (~enableAsync /\ observers[sub] # NoStream
                        /\ observers'[sub] = observers[sub])
              => \A q \in AdapterQueries, matches \in BOOLEAN :
                     Count(Raw(GivenTo(sub)), <<matches, q>>)
                         <= TransitionsFlushed(q, matches)]_vars

\* nor does the deferred policy
C31_DeferredOnce ==
    [][\A sub \in Subscribers :
          (enableAsync /\ observers[sub] # NoStream
                       /\ observers'[sub] = observers[sub])
              => \A q \in AdapterQueries, matches \in BOOLEAN :
                     Count(Raw(GivenTo(sub)), <<matches, q>>)
                         <= TransitionsFlushed(q, matches)]_vars

\* a subscriber of observe() holds the de-activation of the shared query twice
C31_GivenTwice ==
    \E sub \in Subscribers :
        /\ observers[sub] = ObserveStream(UNDEFINED)
        /\ Raw(inbox[sub]) = << <<FALSE, "Q1">>, <<FALSE, "Q1">> >>
        /\ Count(Raw(tickIn), <<FALSE, "Q1">>) = QueueListeners("Q1")

(***************************************************************************)
(* The stream's last activation and Monitor.active (checked under          *)
(* SpecStream).                                                            *)
(***************************************************************************)
\* the activations of registered ranges among the changes
ActivationsOfRanges(changes) ==
    SelectSeq(changes, LAMBDA c :
        c.matches /\ \E i \in 1..Len(breakpoints) :
                         breakpoints[i].mediaQuery = c.mediaQuery)

\* the last of them, if any
LastActivation(changes) ==
    LET acts == ActivationsOfRanges(changes)
    IN  IF acts = <<>> THEN NULL ELSE acts[Len(acts)]

\* no flush is pending or running
QueueIdle == timers = 0 /\ ~debouncing

\* C32: whenever the queue is idle and Monitor.active is a range, the last
\* activation of a range that a subscriber of observe() was given in this tick
\* is of the query of that range.
C32_LastActivationIsActive ==
    (QueueIdle /\ Active(State) # NULL) =>
        \A sub \in Subscribers :
            (observers[sub] = ObserveStream(UNDEFINED)
                /\ LastActivation(inbox[sub]) # NULL)
                => LastActivation(inbox[sub]).mediaQuery
                       = Active(State).mediaQuery

\* the same with no de-activation after that activation: the ranges that were
\* true when it was published are still true
C32_LastActivationIsActiveWhileNothingEnds ==
    (QueueIdle /\ Active(State) # NULL) =>
        \A sub \in Subscribers :
            (observers[sub] = ObserveStream(UNDEFINED)
                /\ LastActivation(inbox[sub]) # NULL
                /\ inbox[sub][Len(inbox[sub])] = LastActivation(inbox[sub]))
                => LastActivation(inbox[sub]).mediaQuery
                       = Active(State).mediaQuery

\* what holds of the code: the last activation published is of a range
\* whose query is true, while no de-activation has followed it
C32_LastActivationWasTrue ==
    QueueIdle =>
        \A sub \in Subscribers :
            (observers[sub] = ObserveStream(UNDEFINED)
                /\ LastActivation(inbox[sub]) # NULL
                /\ inbox[sub][Len(inbox[sub])] = LastActivation(inbox[sub]))
                => media[LastActivation(inbox[sub]).mediaQuery]

====
